---------------------------- MODULE Spec2Model ----------------------------
(***************************************************************************)
(* Model of the boundation OPNsense-unbound provider: the ownership cache, *)
(* the record codec and the Records / ApplyChanges operations of           *)
(* internal/unbound.                                                       *)
(*                                                                         *)
(* Go strings are modelled as sequences of one-character strings, so that  *)
(* prefix tests, splitting and base64 are computed, not assumed.           *)
(***************************************************************************)
EXTENDS Integers, Sequences, FiniteSets, TLC

(***************************************************************************)
(* Strings                                                                 *)
(***************************************************************************)

\* printable ASCII, code 32 .. 126, in code order (code 96, the backquote,
\* is written as the token of a non-printable byte)
Ascii ==
  << " ", "!", "\"", "#", "$", "%", "&", "'", "(", ")", "*", "+", ",", "-", ".", "/",
     "0", "1", "2", "3", "4", "5", "6", "7", "8", "9", ":", ";", "<", "=", ">", "?",
     "@", "A", "B", "C", "D", "E", "F", "G", "H", "I", "J", "K", "L", "M", "N", "O",
     "P", "Q", "R", "S", "T", "U", "V", "W", "X", "Y", "Z", "[", "\\", "]", "^", "_",
     "1096", "a", "b", "c", "d", "e", "f", "g", "h", "i", "j", "k", "l", "m", "n", "o",
     "p", "q", "r", "s", "t", "u", "v", "w", "x", "y", "z", "{", "|", "}", "~" >>

\* the byte value of a character
Code(c) == 31 + (CHOOSE k \in 1..Len(Ascii) : Ascii[k] = c)

\* the character of a byte value; a byte outside printable ASCII is kept
\* as a distinct token
Chr(b) == IF b \in 32..126 THEN Ascii[b - 31] ELSE ToString(1000 + b)

\* []byte(s)
Bytes(s) == [k \in 1..Len(s) |-> Code(s[k])]

\* string(b)
FromBytes(b) == [k \in 1..Len(b) |-> Chr(b[k])]

\* strings.HasPrefix(s, prefix)
HasPrefix(s, prefix) ==
  /\ Len(s) >= Len(prefix)
  /\ SubSeq(s, 1, Len(prefix)) = prefix

\* s[n:]
Drop(s, n) == SubSeq(s, n + 1, Len(s))

\* index of the first occurrence of old in s, 0 when there is none
Index(s, old) ==
  LET hits == {k \in 1..(Len(s) - Len(old) + 1) : SubSeq(s, k, k + Len(old) - 1) = old}
  IN  IF hits = {} THEN 0 ELSE CHOOSE k \in hits : \A h \in hits : k <= h

\* strings.Replace(s, old, "", 1) for a non-empty old
RemoveFirst(s, old) ==
  LET k == Index(s, old)
  IN  IF k = 0 THEN s ELSE SubSeq(s, 1, k - 1) \o Drop(s, k + Len(old) - 1)

IsSpace(c) == c \in {" ", "\t", "\n", "\r"}

\* strings.TrimSpace(s)
TrimSpace(s) ==
  LET keep == {k \in 1..Len(s) : ~IsSpace(s[k])}
  IN  IF keep = {} THEN <<>>
      ELSE LET lo == CHOOSE k \in keep : \A h \in keep : k <= h
               hi == CHOOSE k \in keep : \A h \in keep : k >= h
           IN  SubSeq(s, lo, hi)

\* strings.Split(s, sep) for a one-character sep
RECURSIVE Split(_, _)
Split(s, sep) ==
  LET k == Index(s, <<sep>>)
  IN  IF k = 0 THEN <<s>>
      ELSE <<SubSeq(s, 1, k - 1)>> \o Split(Drop(s, k), sep)

\* strings.Join(parts, sep) for a one-character sep
RECURSIVE Join(_, _)
Join(parts, sep) ==
  IF Len(parts) = 0 THEN <<>>
  ELSE IF Len(parts) = 1 THEN parts[1]
  ELSE parts[1] \o <<sep>> \o Join(Tail(parts), sep)

(***************************************************************************)
(* encoding/base64, StdEncoding                                            *)
(***************************************************************************)

encodeStd ==
  << "A", "B", "C", "D", "E", "F", "G", "H", "I", "J", "K", "L", "M", "N", "O", "P",
     "Q", "R", "S", "T", "U", "V", "W", "X", "Y", "Z", "a", "b", "c", "d", "e", "f",
     "g", "h", "i", "j", "k", "l", "m", "n", "o", "p", "q", "r", "s", "t", "u", "v",
     "w", "x", "y", "z", "0", "1", "2", "3", "4", "5", "6", "7", "8", "9", "+", "/" >>

B64Char(v) == encodeStd[v + 1]

InB64(c) == \E k \in 1..Len(encodeStd) : encodeStd[k] = c

B64Val(c) == (CHOOSE k \in 1..Len(encodeStd) : encodeStd[k] = c) - 1

\* base64.StdEncoding.EncodeToString over a byte sequence
RECURSIVE EncodeBytes(_)
EncodeBytes(b) ==
  IF Len(b) = 0 THEN <<>>
  ELSE IF Len(b) = 1 THEN
    << B64Char(b[1] \div 4), B64Char((b[1] % 4) * 16), "=", "=" >>
  ELSE IF Len(b) = 2 THEN
    << B64Char(b[1] \div 4),
       B64Char((b[1] % 4) * 16 + (b[2] \div 16)),
       B64Char((b[2] % 16) * 4), "=" >>
  ELSE
    << B64Char(b[1] \div 4),
       B64Char((b[1] % 4) * 16 + (b[2] \div 16)),
       B64Char((b[2] % 16) * 4 + (b[3] \div 64)),
       B64Char(b[3] % 64) >> \o EncodeBytes(Drop(b, 3))

EncodeToString(s) == EncodeBytes(Bytes(s))

\* one quantum of four characters; last says whether padding is allowed
DecodeQuad(q, last) ==
  LET v(k) == B64Val(q[k])
  IN  IF \A k \in 1..4 : InB64(q[k]) THEN
        [ok |-> TRUE,
         bytes |-> << v(1) * 4 + (v(2) \div 16),
                      (v(2) % 16) * 16 + (v(3) \div 4),
                      (v(3) % 4) * 64 + v(4) >>]
      ELSE IF last /\ InB64(q[1]) /\ InB64(q[2]) /\ InB64(q[3]) /\ q[4] = "=" THEN
        [ok |-> TRUE,
         bytes |-> << v(1) * 4 + (v(2) \div 16),
                      (v(2) % 16) * 16 + (v(3) \div 4) >>]
      ELSE IF last /\ InB64(q[1]) /\ InB64(q[2]) /\ q[3] = "=" /\ q[4] = "=" THEN
        [ok |-> TRUE, bytes |-> << v(1) * 4 + (v(2) \div 16) >>]
      ELSE [ok |-> FALSE, bytes |-> <<>>]

\* base64.StdEncoding.DecodeString: [ok, bytes]
RECURSIVE DecodeString(_)
DecodeString(s) ==
  IF Len(s) = 0 THEN [ok |-> TRUE, bytes |-> <<>>]
  ELSE IF Len(s) < 4 THEN [ok |-> FALSE, bytes |-> <<>>]
  ELSE LET head == DecodeQuad(SubSeq(s, 1, 4), Len(s) = 4)
           rest == DecodeString(Drop(s, 4))
       IN  IF head.ok /\ rest.ok
           THEN [ok |-> TRUE, bytes |-> head.bytes \o rest.bytes]
           ELSE [ok |-> FALSE, bytes |-> <<>>]

(***************************************************************************)
(* Constants of internal/unbound                                           *)
(***************************************************************************)

DescriptionPrefix ==
  << "M", "a", "n", "a", "g", "e", "d", " ", "b", "y", " ", "K", "8", "s", " ",
     "e", "x", "t", "e", "r", "n", "a", "l", "-", "d", "n", "s" >>

SearchOverridesEndpoint == "/api/unbound/settings/searchHostOverride"
AddOverrideEndpoint == "/api/unbound/settings/addHostOverride"
DelOverrideEndpoint == "/api/unbound/settings/delHostOverride/"
ApplyChangesEndpoint == "/api/unbound/service/reconfigure"

CreateOpSuccessResponse == "saved"
DeleteOpSuccessResponse == "deleted"
ReconfigureSuccessResponse == ""

ErrRequestFailed == "ErrRequestFailed"
ErrMarshalling == "ErrMarshalling"

StatusOK == 200
StatusBadRequest == 400

\* endpoint.RecordTypeA, RecordTypeAAAA, RecordTypeTXT
RecordTypeA == << "A" >>
RecordTypeAAAA == << "A", "A", "A", "A" >>
RecordTypeTXT == << "T", "X", "T" >>

\* supportedType that also lets ownership records through
supportedTypeWithTXT(recordType) ==
  recordType \in {RecordTypeA, RecordTypeAAAA, RecordTypeTXT}

\* supportedType
supportedType(recordType) ==
  recordType \in {RecordTypeA, RecordTypeAAAA}

(***************************************************************************)
(* The ownership cache (cache.heritages: map[string]string)                *)
(***************************************************************************)

\* make(map[string]string)
newCache == [k \in {} |-> <<>>]

\* m[k] = v
MapPut(m, k, v) == [x \in (DOMAIN m) \cup {k} |-> IF x = k THEN v ELSE m[x]]

\* delete(m, k)
MapDelete(m, k) == [x \in (DOMAIN m) \ {k} |-> m[x]]

\* m[k], the zero value "" when k is absent
MapGet(m, k) == IF k \in DOMAIN m THEN m[k] ELSE <<>>

\* endpoint.Targets.String(): strings.Join(t, ";")
TargetsString(targets) == Join(targets, ";")

\* the loop body without the second key of a name that starts with a-
cacheFromOneNoAlias(out, ep) ==
  IF ep.RecordType = RecordTypeTXT
    THEN MapPut(out, ep.DNSName, TargetsString(ep.Targets))
    ELSE out

\* one iteration of the loop of cacheFromSlice
cacheFromOne(out, ep) ==
  IF ep.RecordType = RecordTypeTXT THEN
    LET first == MapPut(out, ep.DNSName, TargetsString(ep.Targets))
    IN  IF HasPrefix(ep.DNSName, <<"a", "-">>)
        THEN MapPut(first, RemoveFirst(ep.DNSName, <<"a", "-">>), TargetsString(ep.Targets))
        ELSE first
  ELSE out

\* cache.cacheFromSlice
RECURSIVE cacheFromFold(_, _)
cacheFromFold(out, in) ==
  IF Len(in) = 0 THEN out
  ELSE cacheFromFold(cacheFromOne(out, Head(in)), Tail(in))

cacheFromSlice(in) == cacheFromFold(newCache, in)

\* cache.removeRecords
RECURSIVE removeRecords(_, _)
removeRecords(h, toDel) ==
  IF Len(toDel) = 0 THEN h
  ELSE removeRecords(
         IF supportedType(Head(toDel).RecordType)
           THEN MapDelete(h, Head(toDel).DNSName)
           ELSE h,
         Tail(toDel))

\* for k, v := range fromCreate { c.heritages[k] = v }
MapMerge(h, from) ==
  [x \in (DOMAIN h) \cup (DOMAIN from) |-> IF x \in DOMAIN from THEN from[x] ELSE h[x]]

\* updateFromPlan that sets the entries first and removes the records after
updateFromPlanCreatesFirst(h, c) ==
  removeRecords(MapMerge(h, cacheFromSlice(c.Create \o c.UpdateNew)), c.Delete)

\* updateFromPlan that also removes the entries of the records of UpdateOld
updateFromPlanRemovesOld(h, c) ==
  MapMerge(removeRecords(h, c.Delete \o c.UpdateOld), cacheFromSlice(c.Create \o c.UpdateNew))

\* updateFromPlan that replaces the cache by the extraction
updateFromPlanReplace(h, c) == cacheFromSlice(c.Create \o c.UpdateNew)

\* cache.updateFromPlan
updateFromPlan(h, c) ==
  MapMerge(removeRecords(h, c.Delete), cacheFromSlice(c.Create \o c.UpdateNew))

\* updateReadRecords that merges the read into the cache it has
updateReadRecordsMerge(h, read) == MapMerge(h, cacheFromSlice(read))

\* cache.updateReadRecords
updateReadRecords(h, read) == cacheFromSlice(read)

\* appendToDescription: fmt.Sprintf("%v %v", DescriptionPrefix, toAppend)
appendToDescription(toAppend) == DescriptionPrefix \o << " " >> \o toAppend

\* createDescription that leaves the description empty without a cache entry
createDescriptionEmptyWhenAbsent(h, dnsName) ==
  IF dnsName \in DOMAIN h THEN appendToDescription(EncodeToString(h[dnsName])) ELSE <<>>

\* cache.createDescription
createDescription(h, dnsName) ==
  appendToDescription(EncodeToString(MapGet(h, dnsName)))

(***************************************************************************)
(* The record codec                                                        *)
(***************************************************************************)

\* endpointsFromBase64Description with the alias record first
endpointsFromBase64DescriptionAliasFirst(dnsName, description) ==
  IF ~HasPrefix(description, DescriptionPrefix) THEN [ok |-> FALSE, eps |-> <<>>]
  ELSE
    LET stripped == TrimSpace(RemoveFirst(description, DescriptionPrefix))
        decoded == DecodeString(stripped)
    IN  IF ~decoded.ok THEN [ok |-> FALSE, eps |-> <<>>]
        ELSE [ok |-> TRUE,
              eps |-> << [DNSName |-> <<"a", "-">> \o dnsName,
                          Targets |-> << FromBytes(decoded.bytes) >>,
                          RecordType |-> RecordTypeTXT,
                          SetIdentifier |-> "",
                          Labels |-> <<>>],
                         [DNSName |-> dnsName,
                          Targets |-> << FromBytes(decoded.bytes) >>,
                          RecordType |-> RecordTypeTXT,
                          SetIdentifier |-> "",
                          Labels |-> <<>>] >>]

\* endpointsFromBase64Description: [ok, eps]
endpointsFromBase64Description(dnsName, description) ==
  IF ~HasPrefix(description, DescriptionPrefix) THEN [ok |-> FALSE, eps |-> <<>>]
  ELSE
    LET stripped == TrimSpace(RemoveFirst(description, DescriptionPrefix))
        decoded == DecodeString(stripped)
    IN  IF ~decoded.ok THEN [ok |-> FALSE, eps |-> <<>>]
        ELSE [ok |-> TRUE,
              eps |-> << [DNSName |-> dnsName,
                          Targets |-> << FromBytes(decoded.bytes) >>,
                          RecordType |-> RecordTypeTXT,
                          SetIdentifier |-> "",
                          Labels |-> <<>>],
                         [DNSName |-> <<"a", "-">> \o dnsName,
                          Targets |-> << FromBytes(decoded.bytes) >>,
                          RecordType |-> RecordTypeTXT,
                          SetIdentifier |-> "",
                          Labels |-> <<>>] >>]

\* the loop body that drops a row whose description does not decode
rowToEndpointsDropUndecoded(row) ==
  LET marshalledEndpoint ==
        [DNSName |-> row.Hostname \o << "." >> \o row.Domain,
         Targets |-> << row.Server >>,
         RecordType |-> Split(row.Rr, " ")[1],
         SetIdentifier |-> row.UUID,
         Labels |-> row.Description]
      txt == endpointsFromBase64Description(marshalledEndpoint.DNSName, row.Description)
  IN  IF txt.ok THEN << marshalledEndpoint >> \o txt.eps ELSE <<>>

\* the loop body that takes the whole rr string as the record kind
rowToEndpointsWholeRr(row) ==
  LET marshalledEndpoint ==
        [DNSName |-> row.Hostname \o << "." >> \o row.Domain,
         Targets |-> << row.Server >>,
         RecordType |-> row.Rr,
         SetIdentifier |-> row.UUID,
         Labels |-> row.Description]
      txt == endpointsFromBase64Description(marshalledEndpoint.DNSName, row.Description)
  IN  IF txt.ok THEN << marshalledEndpoint >> \o txt.eps ELSE << marshalledEndpoint >>

\* the body of the loop of SearchHostResp.ToEndpoints, for one row;
\* Labels holds the value of the "description" label, empty when the map is nil
rowToEndpoints(row) ==
  LET marshalledEndpoint ==
        [DNSName |-> row.Hostname \o << "." >> \o row.Domain,
         Targets |-> << row.Server >>,
         RecordType |-> Split(row.Rr, " ")[1],
         SetIdentifier |-> row.UUID,
         Labels |-> row.Description]
      txt == endpointsFromBase64Description(marshalledEndpoint.DNSName, row.Description)
  IN  IF txt.ok THEN << marshalledEndpoint >> \o txt.eps ELSE << marshalledEndpoint >>

\* SearchHostResp.ToEndpoints
RECURSIVE ToEndpoints(_)
ToEndpoints(rows) ==
  IF Len(rows) = 0 THEN <<>>
  ELSE rowToEndpoints(Head(rows)) \o ToEndpoints(Tail(rows))

\* the Record with the second segment of the name alone as its domain
requestRecordSecondSegment(h, ep, target) ==
  LET dnsSplit == Split(ep.DNSName, ".")
  IN  [UUID |-> "",
       Hostname |-> dnsSplit[1],
       Domain |-> IF Len(dnsSplit) > 1 THEN dnsSplit[2] ELSE <<>>,
       Rr |-> ep.RecordType,
       Server |-> target,
       Enabled |-> "1",
       Description |-> createDescription(h, ep.DNSName)]

\* the Record built by createRequestJSON for one target
requestRecord(h, ep, target) ==
  LET dnsSplit == Split(ep.DNSName, ".")
  IN  [UUID |-> "",
       Hostname |-> dnsSplit[1],
       Domain |-> Join(Tail(dnsSplit), "."),
       Rr |-> ep.RecordType,
       Server |-> target,
       Enabled |-> "1",
       Description |-> createDescription(h, ep.DNSName)]

\* createRequestJSON that builds a payload for the first target only
createRequestJSONFirstTarget(h, ep) ==
  [k \in 1..(IF Len(ep.Targets) > 0 THEN 1 ELSE 0) |-> requestRecord(h, ep, ep.Targets[k])]

\* Unbound.createRequestJSON: one payload per target
createRequestJSON(h, ep) ==
  [k \in 1..Len(ep.Targets) |-> requestRecord(h, ep, ep.Targets[k])]

\* ApplyChanges without its HasChanges test
HasChangesAlways(c) == TRUE

\* HasChanges that counts the address records only
HasChangesAddressOnly(c) ==
  \E n \in 1..Len(c.Create \o c.Delete \o c.UpdateNew \o c.UpdateOld) :
    supportedType((c.Create \o c.Delete \o c.UpdateNew \o c.UpdateOld)[n].RecordType)

\* plan.Changes.HasChanges, as called by ApplyChanges
HasChanges(c) ==
  \/ Len(c.Create) > 0
  \/ Len(c.Delete) > 0
  \/ c.UpdateNew # c.UpdateOld

(***************************************************************************)
(* Errors and HTTP responses                                               *)
(***************************************************************************)

\* a Go error value: failed = (err != nil); is = the sentinels errors.Is
\* finds in its chain; phase = the outermost wrapping text; named/name = the
\* DNS name the chain is wrapped with by deleteEndpoints ("%q: %w")
NilErr == [failed |-> FALSE, is |-> {}, phase |-> "", named |-> FALSE, name |-> <<>>]

Failure(sentinels) ==
  [failed |-> TRUE, is |-> sentinels, phase |-> "", named |-> FALSE, name |-> <<>>]

\* fmt.Errorf("<phase>: %w", e)
Wrap(phase, e) == [e EXCEPT !.phase = phase]

\* fmt.Errorf("%q: %w", name, e)
WrapName(dnsName, e) == [e EXCEPT !.named = TRUE, !.name = dnsName]

\* what u.client.Do returns: a transport error (doErr), or a response with
\* a status and a body that parses or not as an OperationResponse
NoResp == [doErr |-> FALSE, status |-> 0, parses |-> FALSE, result |-> ""]

Results == {CreateOpSuccessResponse, DeleteOpSuccessResponse, ReconfigureSuccessResponse, "failure"}

Statuses == {StatusOK, StatusBadRequest}

WriteResponses ==
  {[doErr |-> TRUE, status |-> 0, parses |-> FALSE, result |-> ""]}
    \cup [doErr : {FALSE}, status : Statuses, parses : {TRUE}, result : Results]
    \cup [doErr : {FALSE}, status : Statuses, parses : {FALSE}, result : {""}]

\* the search answers: parses says whether the body unmarshals as a SearchHostResp
SearchResponses ==
  {[doErr |-> TRUE, status |-> 0, parses |-> FALSE, result |-> ""]}
    \cup [doErr : {FALSE}, status : Statuses, parses : BOOLEAN, result : {""}]

\* checkResponse that compares the result and ignores the unmarshal error
checkResponseIgnoreUnmarshal(r, wantResult) ==
  IF r.result # wantResult
    THEN Failure({ErrRequestFailed})
    ELSE NilErr

\* Unbound.checkResponse
checkResponse(r, wantResult) ==
  IF ~r.parses \/ r.result # wantResult THEN Failure({ErrRequestFailed}) ELSE NilErr

\* Unbound.deleteEndpoint, from the answer of client.Do on
deleteEndpointResult(r) ==
  IF r.doErr THEN Failure({})
  ELSE IF r.status # StatusOK THEN Failure({ErrRequestFailed})
  ELSE checkResponse(r, DeleteOpSuccessResponse)

\* Unbound.createTarget, from the answer of client.Do on
createTargetResult(r) ==
  IF r.doErr THEN Failure({})
  ELSE IF r.status # StatusOK THEN Failure({ErrRequestFailed})
  ELSE checkResponse(r, CreateOpSuccessResponse)

\* reconfigure without the test of the status
reconfigureResultNoStatus(r) ==
  IF r.doErr THEN Failure({})
  ELSE checkResponse(r, ReconfigureSuccessResponse)

\* Unbound.reconfigure, from the answer of client.Do on
reconfigureResult(r) ==
  IF r.doErr THEN Failure({})
  ELSE IF r.status # StatusOK THEN Failure({ErrRequestFailed})
  ELSE checkResponse(r, ReconfigureSuccessResponse)

\* Records that unmarshals the body before it looks at the status
recordsResultUnmarshalFirst(r) ==
  IF r.doErr THEN Failure({})
  ELSE IF ~r.parses THEN Failure({ErrMarshalling})
  ELSE IF r.status # StatusOK THEN Failure({ErrRequestFailed})
  ELSE NilErr

\* Unbound.Records, from the answer of client.Do on, up to marshalEndpoints
recordsResult(r) ==
  IF r.doErr THEN Failure({})
  ELSE IF r.status # StatusOK THEN Failure({ErrRequestFailed})
  ELSE IF ~r.parses THEN Failure({ErrMarshalling})
  ELSE NilErr

(***************************************************************************)
(* The remote resolver                                                     *)
(***************************************************************************)

\* the remote performs a write exactly when it answers it with success
Accepted(r, wantResult) ==
  ~r.doErr /\ r.status = StatusOK /\ r.parses /\ r.result = wantResult

\* delHostOverride/<id>
RECURSIVE remoteDelete(_, _)
remoteDelete(rs, id) ==
  IF Len(rs) = 0 THEN <<>>
  ELSE IF Head(rs).UUID = id THEN remoteDelete(Tail(rs), id)
  ELSE << Head(rs) >> \o remoteDelete(Tail(rs), id)

\* addHostOverride: the remote stores the row under an identifier of its own
remoteAdd(rs, host, n) == Append(rs, [host EXCEPT !.UUID = ToString(n)])

(***************************************************************************)
(* Inputs                                                                  *)
(***************************************************************************)

\* the most records a change-set holds, over its four lists
MaxTotal == 2

NameX == << "x", ".", "d" >>
NameAX == << "a", "-", "x", ".", "d" >>
NameY == << "y" >>

Pool ==
  { [DNSName |-> NameX, Targets |-> << <<"1">>, <<"2">> >>, RecordType |-> RecordTypeA,
     SetIdentifier |-> "u1", Labels |-> <<>>],
    [DNSName |-> NameX, Targets |-> << <<"3">> >>, RecordType |-> RecordTypeA,
     SetIdentifier |-> "", Labels |-> <<>>],
    [DNSName |-> NameAX, Targets |-> << <<"k">> >>, RecordType |-> RecordTypeTXT,
     SetIdentifier |-> "", Labels |-> <<>>],
    [DNSName |-> NameX, Targets |-> << <<"v">> >>, RecordType |-> RecordTypeTXT,
     SetIdentifier |-> "", Labels |-> <<>>],
    [DNSName |-> NameY, Targets |-> << <<"1">> >>, RecordType |-> <<>>,
     SetIdentifier |-> "u2", Labels |-> <<>>],
    [DNSName |-> NameY, Targets |-> << <<"2">> >>, RecordType |-> RecordTypeAAAA,
     SetIdentifier |-> "", Labels |-> <<>>] }

SeqsUpTo(S, n) == UNION {[1..k -> S] : k \in 0..n}

\* the rows the remote holds at the start
InitialRows ==
  << [UUID |-> "u1", Hostname |-> <<"x">>, Domain |-> <<"d">>,
      Rr |-> << "A", " ", "(", "I", "P", "v", "4", ")" >>,
      Server |-> <<"1">>, Enabled |-> "1",
      Description |-> appendToDescription(EncodeToString(<<"h">>))],
     [UUID |-> "u2", Hostname |-> <<"y">>, Domain |-> <<>>,
      Rr |-> << "A", "A", "A", "A" >>,
      Server |-> <<"2">>, Enabled |-> "1",
      Description |-> <<>>] >>

(***************************************************************************)
(* State                                                                   *)
(***************************************************************************)

VARIABLES
  heritages,     \* u.knownRecords.heritages
  rows,          \* the rows of the remote resolver
  uuidSeq,       \* how many identifiers the remote has handed out
  pc,            \* where ApplyChanges stands: idle, delete, create, createTarget, reconfigure, done
  changes,       \* the *plan.Changes of the call
  i,             \* index of the loop of deleteEndpoints / createEndpoints
  requestDatas,  \* the payloads of the endpoint createEndpoint is at
  j,             \* index of the loop of createEndpoint
  reqs,          \* the requests the current call has issued, in order
  resp,          \* the answer to the last request
  err,           \* the error the call returned
  out,           \* the endpoints Records returned
  caller,        \* the command or handler that calls the provider
  reader,        \* a Records call of another goroutine on the same provider
  awaiting,      \* the requests of the call inside u.client.Do: sent, no answer yet
  ctx            \* the context.Context of the call: live or cancelled

vars == << heritages, rows, uuidSeq, pc, changes, i, requestDatas, j, reqs, resp, err, out,
           caller, reader, awaiting, ctx >>

\* the variables of the callers of the provider
callerVars == << caller, reader, awaiting, ctx >>

\* a plan.Changes value, its four lists selected as c.Create, c.UpdateOld,
\* c.UpdateNew and c.Delete
Changes(cr, uo, un, dl) ==
  [f \in {"Create", "UpdateOld", "UpdateNew", "Delete"} |->
     CASE f = "Create" -> cr
       [] f = "UpdateOld" -> uo
       [] f = "UpdateNew" -> un
       [] OTHER -> dl]

\* &plan.Changes{}
NoChanges == Changes(<<>>, <<>>, <<>>, <<>>)

\* (nil, err) / (endpoints, nil)
NilOut == [nil |-> TRUE, eps |-> <<>>]

\* emptyJSON() is the body of delete and reconfigure; an add carries one Record
Request(endpoint, id, body) == [endpoint |-> endpoint, id |-> id, body |-> body]

\* append(changes.Delete, changes.UpdateOld...)
Deletes(c) == c.Delete \o c.UpdateOld

\* append(changes.Create, changes.UpdateNew...)
Creates(c) == c.Create \o c.UpdateNew

\* the Records call of the other goroutine: not started
NoReader == [at |-> "none", failed |-> FALSE, eps |-> <<>>, during |-> ""]

\* no command or handler has started: cmd is the command or handler, at its
\* position, hosts and targets its flags, err the error it returned, log the
\* requests it made, calls its ApplyChanges calls, status its HTTP status,
\* run the count of its runs, held the rows the remote held when it began,
\* decodes whether the body of the request decoded, body the body it wrote
NoCommand ==
  [cmd |-> "none", at |-> "none", hosts |-> <<>>, targets |-> <<>>, err |-> NilErr,
   log |-> <<>>, calls |-> 0, status |-> 0, run |-> 0, held |-> <<>>,
   decodes |-> FALSE, body |-> <<>>]

\* no command or handler runs, no other goroutine reads, no request is in
\* flight and the context is context.Background()
NoCaller ==
  /\ caller = NoCommand
  /\ reader = NoReader
  /\ awaiting = <<>>
  /\ ctx = "live"

Init ==
  /\ NoCaller
  /\ heritages = newCache
  /\ rows = InitialRows
  /\ uuidSeq = 0
  /\ pc = "idle"
  /\ changes = NoChanges
  /\ i = 1
  /\ requestDatas = <<>>
  /\ j = 1
  /\ reqs = <<>>
  /\ resp = NoResp
  /\ err = NilErr
  /\ out = NilOut

(***************************************************************************)
(* Unbound.Records                                                         *)
(***************************************************************************)

\* Records that replaces the cache by the empty read when the call fails
RecordsStoresOnFailure(r) ==
  /\ pc = "idle"
  /\ reqs' = << Request(SearchOverridesEndpoint, "", <<>>) >>
  /\ resp' = r
  /\ err' = recordsResult(r)
  /\ IF recordsResult(r).failed
       THEN /\ out' = NilOut
            /\ heritages' = updateReadRecords(heritages, <<>>)
       ELSE /\ out' = [nil |-> FALSE, eps |-> ToEndpoints(rows)]
            /\ heritages' = updateReadRecords(heritages, ToEndpoints(rows))
  /\ UNCHANGED << rows, uuidSeq, pc, changes, i, requestDatas, j >>

\* one call of Records: the search request, its answer r, and on success
\* the decode of the rows and the rebuild of the cache
Records(r) ==
  /\ pc = "idle"
  /\ reqs' = << Request(SearchOverridesEndpoint, "", <<>>) >>
  /\ resp' = r
  /\ err' = recordsResult(r)
  /\ IF recordsResult(r).failed
       THEN /\ out' = NilOut
            /\ UNCHANGED heritages
       ELSE /\ out' = [nil |-> FALSE, eps |-> ToEndpoints(rows)]
            /\ heritages' = updateReadRecords(heritages, ToEndpoints(rows))
  /\ UNCHANGED << rows, uuidSeq, pc, changes, i, requestDatas, j >>

(***************************************************************************)
(* Unbound.ApplyChanges                                                    *)
(***************************************************************************)

\* ApplyChanges with createEndpoints called before deleteEndpoints
PhasesCreateFirst == << "create", "delete", "reconfigure" >>

\* the calls ApplyChanges makes after the merge of the cache, in order:
\* deleteEndpoints, createEndpoints, reconfigure
Phases == << "delete", "create", "reconfigure" >>

\* the call that follows the call p
After(p) == Phases[(CHOOSE k \in 1..Len(Phases) : Phases[k] = p) + 1]

\* ApplyChanges that does not merge the change-set into the cache
ApplyChangesNoMerge(c) ==
  /\ pc = "idle"
  /\ changes' = c
  /\ reqs' = <<>>
  /\ resp' = NoResp
  /\ err' = NilErr
  /\ out' = NilOut
  /\ i' = 1
  /\ j' = 1
  /\ requestDatas' = <<>>
  /\ pc' = IF ~HasChanges(c) THEN "done" ELSE Phases[1]
  /\ UNCHANGED << heritages, rows, uuidSeq >>

\* entry of ApplyChanges with the change-set c: the HasChanges test and the
\* merge of the cache
ApplyChanges(c) ==
  /\ pc = "idle"
  /\ changes' = c
  /\ reqs' = <<>>
  /\ resp' = NoResp
  /\ err' = NilErr
  /\ out' = NilOut
  /\ i' = 1
  /\ j' = 1
  /\ requestDatas' = <<>>
  /\ IF ~HasChanges(c)
       THEN /\ pc' = "done"
            /\ UNCHANGED heritages
       ELSE /\ pc' = Phases[1]
            /\ heritages' = updateFromPlan(heritages, c)
  /\ UNCHANGED << rows, uuidSeq >>

\* deleteEndpoints that issues the request of a record again when it failed
deleteEndpointRetry(r) ==
  /\ pc = "delete"
  /\ i <= Len(Deletes(changes))
  /\ LET ep == Deletes(changes)[i]
         res == deleteEndpointResult(r)
     IN  /\ reqs' = Append(reqs, Request(DelOverrideEndpoint, ep.SetIdentifier, <<>>))
         /\ resp' = r
         /\ rows' = IF Accepted(r, DeleteOpSuccessResponse)
                      THEN remoteDelete(rows, ep.SetIdentifier)
                      ELSE rows
         /\ i' = IF res.failed THEN i ELSE i + 1
         /\ UNCHANGED << err, pc >>
  /\ UNCHANGED << heritages, uuidSeq, changes, requestDatas, j, out >>

\* deleteEndpoints, one iteration: deleteEndpoint on record i, answer r
deleteEndpoint(r) ==
  /\ pc = "delete"
  /\ i <= Len(Deletes(changes))
  /\ LET ep == Deletes(changes)[i]
         res == deleteEndpointResult(r)
     IN  /\ reqs' = Append(reqs, Request(DelOverrideEndpoint, ep.SetIdentifier, <<>>))
         /\ resp' = r
         /\ rows' = IF Accepted(r, DeleteOpSuccessResponse)
                      THEN remoteDelete(rows, ep.SetIdentifier)
                      ELSE rows
         /\ IF res.failed
              THEN /\ err' = Wrap("plan delete", WrapName(ep.DNSName, res))
                   /\ pc' = "done"
                   /\ UNCHANGED i
              ELSE /\ i' = i + 1
                   /\ UNCHANGED << err, pc >>
  /\ UNCHANGED << heritages, uuidSeq, changes, requestDatas, j, out >>

\* deleteEndpoints returns nil; ApplyChanges goes on to createEndpoints
deleteEndpointsReturn ==
  /\ pc = "delete"
  /\ i > Len(Deletes(changes))
  /\ pc' = After("delete")
  /\ i' = 1
  /\ UNCHANGED << heritages, rows, uuidSeq, changes, requestDatas, j, reqs, resp, err, out >>

\* createEndpoint that leaves out the payloads the remote already holds a
\* row for
createEndpointIfAbsent ==
  /\ pc = "create"
  /\ i <= Len(Creates(changes))
  /\ supportedType(Creates(changes)[i].RecordType)
  /\ LET Absent(data) ==
           \A k \in 1..Len(rows) :
             \/ rows[k].Hostname # data.Hostname
             \/ rows[k].Domain # data.Domain
             \/ rows[k].Server # data.Server
     IN  requestDatas' = SelectSeq(createRequestJSON(heritages, Creates(changes)[i]), Absent)
  /\ j' = 1
  /\ pc' = "createTarget"
  /\ UNCHANGED << heritages, rows, uuidSeq, changes, i, reqs, resp, err, out >>

\* createEndpoints, an iteration on a record of a supported type:
\* createEndpoint builds the payloads
createEndpoint ==
  /\ pc = "create"
  /\ i <= Len(Creates(changes))
  /\ supportedType(Creates(changes)[i].RecordType)
  /\ requestDatas' = createRequestJSON(heritages, Creates(changes)[i])
  /\ j' = 1
  /\ pc' = "createTarget"
  /\ UNCHANGED << heritages, rows, uuidSeq, changes, i, reqs, resp, err, out >>

\* createEndpoints, an iteration on a record of another type: skipped
skipCreate ==
  /\ pc = "create"
  /\ i <= Len(Creates(changes))
  /\ ~supportedType(Creates(changes)[i].RecordType)
  /\ i' = i + 1
  /\ UNCHANGED << heritages, rows, uuidSeq, pc, changes, requestDatas, j, reqs, resp, err, out >>

\* createEndpoint that logs the error of createTarget and goes on
createTargetLogsError(r) ==
  /\ pc = "createTarget"
  /\ j <= Len(requestDatas)
  /\ LET data == requestDatas[j]
     IN  /\ reqs' = Append(reqs, Request(AddOverrideEndpoint, "", << data >>))
         /\ resp' = r
         /\ IF Accepted(r, CreateOpSuccessResponse)
              THEN /\ rows' = remoteAdd(rows, data, uuidSeq + 1)
                   /\ uuidSeq' = uuidSeq + 1
              ELSE UNCHANGED << rows, uuidSeq >>
         /\ j' = j + 1
         /\ UNCHANGED << err, pc >>
  /\ UNCHANGED << heritages, changes, i, requestDatas, out >>

\* createEndpoint, one iteration: createTarget on payload j, answer r
createTarget(r) ==
  /\ pc = "createTarget"
  /\ j <= Len(requestDatas)
  /\ LET data == requestDatas[j]
         res == createTargetResult(r)
     IN  /\ reqs' = Append(reqs, Request(AddOverrideEndpoint, "", << data >>))
         /\ resp' = r
         /\ IF Accepted(r, CreateOpSuccessResponse)
              THEN /\ rows' = remoteAdd(rows, data, uuidSeq + 1)
                   /\ uuidSeq' = uuidSeq + 1
              ELSE UNCHANGED << rows, uuidSeq >>
         /\ IF res.failed
              THEN /\ err' = Wrap("plan create", res)
                   /\ pc' = "done"
                   /\ UNCHANGED j
              ELSE /\ j' = j + 1
                   /\ UNCHANGED << err, pc >>
  /\ UNCHANGED << heritages, changes, i, requestDatas, out >>

\* createEndpoint returns nil; createEndpoints goes to its next record
createEndpointReturn ==
  /\ pc = "createTarget"
  /\ j > Len(requestDatas)
  /\ pc' = "create"
  /\ i' = i + 1
  /\ requestDatas' = <<>>
  /\ j' = 1
  /\ UNCHANGED << heritages, rows, uuidSeq, changes, reqs, resp, err, out >>

\* createEndpoints returns nil; ApplyChanges goes on to reconfigure
createEndpointsReturn ==
  /\ pc = "create"
  /\ i > Len(Creates(changes))
  /\ pc' = After("create")
  /\ i' = 1
  /\ UNCHANGED << heritages, rows, uuidSeq, changes, requestDatas, j, reqs, resp, err, out >>

\* reconfigure that empties the cache when the remote refuses
reconfigureClearsOnFailure(r) ==
  /\ pc = "reconfigure"
  /\ reqs' = Append(reqs, Request(ApplyChangesEndpoint, "", <<>>))
  /\ resp' = r
  /\ err' = IF reconfigureResult(r).failed
              THEN Wrap("apply changes reconfigure endpoint", reconfigureResult(r))
              ELSE NilErr
  /\ heritages' = IF reconfigureResult(r).failed THEN newCache ELSE heritages
  /\ pc' = "done"
  /\ UNCHANGED << rows, uuidSeq, changes, i, requestDatas, j, out >>

\* reconfigure, answer r, and the return of ApplyChanges
reconfigure(r) ==
  /\ pc = "reconfigure"
  /\ reqs' = Append(reqs, Request(ApplyChangesEndpoint, "", <<>>))
  /\ resp' = r
  /\ err' = IF reconfigureResult(r).failed
              THEN Wrap("apply changes reconfigure endpoint", reconfigureResult(r))
              ELSE NilErr
  /\ pc' = "done"
  /\ UNCHANGED << heritages, rows, uuidSeq, changes, i, requestDatas, j, out >>

Next ==
  \/ /\ \E r \in SearchResponses : Records(r)
     /\ UNCHANGED callerVars
  \/ /\ pc = "idle"
     /\ \E cr \in SeqsUpTo(Pool, MaxTotal) :
          \E dl \in SeqsUpTo(Pool, MaxTotal - Len(cr)) :
            \E uo \in SeqsUpTo(Pool, MaxTotal - Len(cr) - Len(dl)) :
              \E un \in SeqsUpTo(Pool, MaxTotal - Len(cr) - Len(dl) - Len(uo)) :
                ApplyChanges(Changes(cr, uo, un, dl))
     /\ UNCHANGED callerVars
  \/ /\ \E r \in WriteResponses : deleteEndpoint(r)
     /\ UNCHANGED callerVars
  \/ /\ deleteEndpointsReturn
     /\ UNCHANGED callerVars
  \/ /\ createEndpoint
     /\ UNCHANGED callerVars
  \/ /\ skipCreate
     /\ UNCHANGED callerVars
  \/ /\ \E r \in WriteResponses : createTarget(r)
     /\ UNCHANGED callerVars
  \/ /\ createEndpointReturn
     /\ UNCHANGED callerVars
  \/ /\ createEndpointsReturn
     /\ UNCHANGED callerVars
  \/ /\ \E r \in WriteResponses : reconfigure(r)
     /\ UNCHANGED callerVars

Spec == Init /\ [][Next]_vars

(***************************************************************************)
(* Vocabulary of the properties                                            *)
(***************************************************************************)

IsSearch(q) == q.endpoint = SearchOverridesEndpoint
IsDel(q) == q.endpoint = DelOverrideEndpoint
IsAdd(q) == q.endpoint = AddOverrideEndpoint
IsReconf(q) == q.endpoint = ApplyChangesEndpoint

Issued == Len(reqs) > 0
LastReq == reqs[Len(reqs)]

AddressKinds == { << "A" >>, << "A", "A", "A", "A" >> }

\* the answer r is status 200 with a body that parses and carries the literal
GoodAnswer(r, literal) ==
  ~r.doErr /\ r.status = 200 /\ r.parses /\ r.result = literal

\* the literal a write expects
WantedLiteral(q) ==
  IF IsAdd(q) THEN "saved" ELSE IF IsDel(q) THEN "deleted" ELSE ""

\* one entry [name, target, rr] per target of each address-kind record, in order
RECURSIVE ExpectedAdds(_)
ExpectedAdds(eps) ==
  IF Len(eps) = 0 THEN <<>>
  ELSE (IF Head(eps).RecordType \in AddressKinds
          THEN [k \in 1..Len(Head(eps).Targets) |->
                  [name |-> Head(eps).DNSName, target |-> Head(eps).Targets[k],
                   rr |-> Head(eps).RecordType]]
          ELSE <<>>) \o ExpectedAdds(Tail(eps))

\* request n is the delete of the n-th record of Delete followed by UpdateOld
IsNthDelete(n) ==
  /\ n <= Len(reqs)
  /\ n <= Len(Deletes(changes))
  /\ IsDel(reqs[n])
  /\ reqs[n].id = Deletes(changes)[n].SetIdentifier

\* request Len(Deletes) + n is the add of the n-th expected target
IsNthAdd(n) ==
  LET adds == ExpectedAdds(Creates(changes))
      q == reqs[Len(Deletes(changes)) + n]
  IN  /\ n <= Len(adds)
      /\ IsAdd(q)
      /\ Len(q.body) = 1
      /\ q.body[1].Server = adds[n].target
      /\ q.body[1].Rr = adds[n].rr
      /\ HasPrefix(adds[n].name, q.body[1].Hostname)

\* the log is every delete, then every add, then one reconfigure
FullLog ==
  LET nd == Len(Deletes(changes))
      na == Len(ExpectedAdds(Creates(changes)))
  IN  /\ Len(reqs) = nd + na + 1
      /\ \A n \in 1..nd : IsNthDelete(n)
      /\ \A n \in 1..na : IsNthAdd(n)
      /\ IsReconf(LastReq)

\* the remote holds its initial rows but the deleted ones, then the first
\* count added rows
RemoteHolds(count) ==
  LET D == Deletes(changes)
      adds == ExpectedAdds(Creates(changes))
      Kept(row) == \A n \in 1..Len(D) : D[n].SetIdentifier # row.UUID
      kept == SelectSeq(InitialRows, Kept)
  IN  /\ Len(rows) = Len(kept) + count
      /\ SubSeq(rows, 1, Len(kept)) = kept
      /\ \A n \in 1..count :
           /\ rows[Len(kept) + n].Server = adds[n].target
           /\ rows[Len(kept) + n].Rr = adds[n].rr

(***************************************************************************)
(* Properties                                                              *)
(***************************************************************************)

\* C1: in every ApplyChanges no delHostOverride request follows an
\* addHostOverride request and no request follows the reconfigure request,
\* also when a name is on the delete side and on the create side.
C1_DeletesBeforeCreates ==
  \A a \in 1..Len(reqs) : \A b \in 1..Len(reqs) :
    a < b => /\ ~(IsAdd(reqs[a]) /\ IsDel(reqs[b]))
             /\ ~IsReconf(reqs[a])

C1_Witness ==
  /\ pc = "done"
  /\ \E a \in 1..Len(reqs) : IsDel(reqs[a])
  /\ \E a \in 1..Len(reqs) : IsAdd(reqs[a])
  /\ IsReconf(LastReq)
  /\ \E a \in 1..Len(Deletes(changes)) : \E b \in 1..Len(Creates(changes)) :
       /\ Deletes(changes)[a].DNSName = Creates(changes)[b].DNSName
       /\ Creates(changes)[b].RecordType \in AddressKinds

\* C2: when the k-th delete fails, the requests issued are exactly the first
\* k deletes (no later delete, no add, no reconfigure) and the error is
\* ErrRequestFailed wrapped with the DNS name of the k-th record.
C2_DeleteFailureAborts ==
  (Issued /\ IsDel(LastReq) /\ ~GoodAnswer(resp, "deleted")) =>
    /\ pc = "done"
    /\ \A n \in 1..Len(reqs) : IsNthDelete(n)
    /\ err.failed
    /\ ErrRequestFailed \in err.is
    /\ err.named
    /\ err.name = Deletes(changes)[Len(reqs)].DNSName

\* C3: when every delete succeeded and the k-th add fails, the requests
\* issued are every delete and then the first k adds, the first k-1 adds are
\* on the remote, and the error is ErrRequestFailed.
C3_CreateFailureAborts ==
  (Issued /\ IsAdd(LastReq) /\ ~GoodAnswer(resp, "saved")) =>
    LET nd == Len(Deletes(changes))
        k == Len(reqs) - nd
    IN  /\ pc = "done"
        /\ k >= 1
        /\ \A n \in 1..nd : IsNthDelete(n)
        /\ \A n \in 1..k : IsNthAdd(n)
        /\ RemoteHolds(k - 1)
        /\ err.failed
        /\ ErrRequestFailed \in err.is

\* C4: ApplyChanges with an empty change-set returns success at once, with
\* no request issued, the cache and the remote as they were.
C4_EmptyChangeSet ==
  [][(pc = "idle" /\ pc' # "idle" /\ changes' = NoChanges) =>
       /\ pc' = "done"
       /\ ~err'.failed
       /\ reqs' = <<>>
       /\ heritages' = heritages
       /\ rows' = rows]_vars

C4_Witness ==
  /\ pc = "done"
  /\ changes = NoChanges
  /\ DOMAIN heritages # {}
  /\ reqs = <<>>

\* C5, as stated: a successful ApplyChanges on a non-empty change-set has
\* issued every delete, then every add, then one reconfigure.
C5_NonEmptyIssuesAll ==
  (pc = "done" /\ ~err.failed /\ changes # NoChanges) => FullLog

\* C5, amended: a successful ApplyChanges on a change-set with a record in
\* Create or Delete, or with UpdateNew different from UpdateOld, has issued
\* every delete, then every add, then one reconfigure.
C5_ChangedIssuesAll ==
  (/\ pc = "done"
   /\ ~err.failed
   /\ \/ Len(changes.Create) > 0
      \/ Len(changes.Delete) > 0
      \/ changes.UpdateNew # changes.UpdateOld) => FullLog

C5_Witness ==
  /\ pc = "done"
  /\ ~err.failed
  /\ Len(changes.UpdateOld) > 0
  /\ Len(ExpectedAdds(Creates(changes))) >= 2
  /\ Len(reqs) >= 4

\* C6: when the reconfigure request fails, ApplyChanges returns the error of
\* reconfigure, the log is every delete, every add and that one reconfigure,
\* and the remote holds the post-change rows.
C6_ReconfigureFailure ==
  (Issued /\ IsReconf(LastReq) /\ ~GoodAnswer(resp, "")) =>
    /\ pc = "done"
    /\ err.failed
    /\ err.phase = "apply changes reconfigure endpoint"
    /\ FullLog
    /\ RemoteHolds(Len(ExpectedAdds(Creates(changes))))

C6_Witness ==
  /\ Issued
  /\ IsReconf(LastReq)
  /\ resp.status = 400
  /\ err.failed
  /\ Len(reqs) >= 3
  /\ rows # InitialRows

\* C7, as stated: every delete and every add request is for a record of
\* kind A or AAAA.
C7_OnlyAddressKinds ==
  \A n \in 1..Len(reqs) :
    /\ IsDel(reqs[n]) => Deletes(changes)[n].RecordType \in AddressKinds
    /\ IsAdd(reqs[n]) => reqs[n].body[1].Rr \in AddressKinds

\* C7, amended: every add request is for a record of kind A or AAAA, a
\* record of another kind in Create or UpdateNew gives no request and no
\* error; the records of Delete and UpdateOld are deleted whatever their kind.
C7_OnlyAddressKindsCreated ==
  /\ \A n \in 1..Len(reqs) :
       /\ IsAdd(reqs[n]) => reqs[n].body[1].Rr \in AddressKinds
       /\ IsDel(reqs[n]) => IsNthDelete(n)
  /\ (pc = "done" /\ Issued /\ GoodAnswer(resp, WantedLiteral(LastReq))) =>
       /\ ~err.failed
       /\ FullLog

C7_Witness ==
  /\ pc = "done"
  /\ ~err.failed
  /\ \E n \in 1..Len(Creates(changes)) : Creates(changes)[n].RecordType = << "T", "X", "T" >>
  /\ \E n \in 1..Len(Deletes(changes)) :
       /\ Deletes(changes)[n].RecordType \notin AddressKinds
       /\ IsNthDelete(n)

\* C8: every failed call returns ErrRequestFailed, but for a read whose
\* body does not parse, which returns ErrMarshalling.
C8_FailuresAreRequestFailed ==
  (Issued /\ err.failed) =>
    IF IsSearch(LastReq) /\ ~resp.doErr /\ resp.status = 200 /\ ~resp.parses
      THEN ErrMarshalling \in err.is
      ELSE ErrRequestFailed \in err.is

\* C9: Records returns (nil, ErrRequestFailed) on a status other than 200
\* and (nil, ErrMarshalling) on status 200 with a body that does not parse,
\* and never an error that is both.
C9_RecordsErrorKinds ==
  (Issued /\ IsSearch(LastReq)) =>
    /\ ~({ErrRequestFailed, ErrMarshalling} \subseteq err.is)
    /\ (~resp.doErr /\ resp.status # 200) =>
         /\ out = NilOut
         /\ err.failed
         /\ ErrRequestFailed \in err.is
         /\ ErrMarshalling \notin err.is
    /\ (~resp.doErr /\ resp.status = 200 /\ ~resp.parses) =>
         /\ out = NilOut
         /\ err.failed
         /\ ErrMarshalling \in err.is
         /\ ErrRequestFailed \notin err.is

C9_Witness ==
  /\ Issued
  /\ IsSearch(LastReq)
  /\ resp.status = 400
  /\ ~resp.parses
  /\ ErrRequestFailed \in err.is

\* C10: a write is taken as successful exactly when its answer is status 200
\* with a body that parses and carries the literal the write expects; a
\* status 200 answer with another literal or an unparsable body gives
\* ErrRequestFailed.
C10_WriteSuccess ==
  (Issued /\ ~IsSearch(LastReq)) =>
    /\ ~err.failed <=> GoodAnswer(resp, WantedLiteral(LastReq))
    /\ (~resp.doErr /\ resp.status = 200 /\ ~GoodAnswer(resp, WantedLiteral(LastReq))) =>
         ErrRequestFailed \in err.is

C10_Witness ==
  /\ Issued
  /\ IsReconf(LastReq)
  /\ resp.status = 200
  /\ ~resp.parses
  /\ err.failed

(***************************************************************************)
(* Reads of an arbitrary remote record set                                 *)
(***************************************************************************)

\* the most rows the remote holds at a read
MaxRows == 2

\* a Record of a SearchHostResp
Row(uuid, hostname, domain, rr, server, description) ==
  [UUID |-> uuid, Hostname |-> hostname, Domain |-> domain, Rr |-> rr,
   Server |-> server, Enabled |-> "1", Description |-> description]

\* rows the remote can hold: descriptions written by this provider, by
\* hand, or damaged
RowPool ==
  { InitialRows[1],
    InitialRows[2],
    Row("u3", <<"z">>, <<"d">>, RecordTypeA, <<"3">>, << "n", "o", "t", "e" >>),
    Row("u4", <<"x">>, <<"d">>, RecordTypeA, <<"4">>,
        DescriptionPrefix \o << " ", "!", "!", "!", "!" >>),
    Row("u5", <<"x">>, <<"d">>, RecordTypeA, <<"5">>,
        DescriptionPrefix \o << " ", "a", "A", "=" >>),
    Row("u6", <<"x">>, <<"d">>, RecordTypeA, <<"6">>, DescriptionPrefix),
    Row("u7", <<"x">>, <<"d">>, RecordTypeA, <<"7">>,
        DescriptionPrefix \o << "a", "A", "=", "=" >>),
    Row("u8", <<"z">>, <<"d">>, RecordTypeA, <<"8">>, DescriptionPrefix \o << " " >>),
    Row("u9", <<"a", "-", "x">>, <<"d">>, RecordTypeA, <<"9">>,
        DescriptionPrefix \o << " ", "a", "G", "k", "=" >>) }

\* the change-set an earlier ApplyChanges merged into the cache
EarlierChanges ==
  {NoChanges} \cup {Changes(<< ep >>, <<>>, <<>>, <<>>) : ep \in Pool}

\* a provider whose cache holds the merge of an earlier change-set, in front
\* of a remote that holds any rows
ReadInit ==
  /\ NoCaller
  /\ changes \in EarlierChanges
  /\ heritages = updateFromPlan(newCache, changes)
  /\ rows \in SeqsUpTo(RowPool, MaxRows)
  /\ uuidSeq = 0
  /\ pc = "idle"
  /\ i = 1
  /\ requestDatas = <<>>
  /\ j = 1
  /\ reqs = <<>>
  /\ resp = NoResp
  /\ err = NilErr
  /\ out = NilOut

ReadNext ==
  /\ \E r \in SearchResponses : Records(r)
  /\ UNCHANGED callerVars

SpecRead == ReadInit /\ [][ReadNext]_vars

\* the last call was a Records that the remote answered with status 200 and
\* a body that parses
ReadDone ==
  /\ Issued
  /\ IsSearch(LastReq)
  /\ ~resp.doErr /\ resp.status = 200 /\ resp.parses

\* DescriptionPrefix, one space, and base64 text
Framed(text) == DescriptionPrefix \o << " " >> \o text

\* the framed descriptions of the row pool with the value they were encoded from
OwnershipOf ==
  { << Framed(<< "a", "A", "=", "=" >>), << "h" >> >>,
    << Framed(<< "a", "G", "k", "=" >>), << "h", "i" >> >>,
    << Framed(<<>>), <<>> >> }

\* descriptions without ownership: empty, foreign, or framed but not base64
PlainDescriptions ==
  { <<>>,
    << "n", "o", "t", "e" >>,
    Framed(<< "!", "!", "!", "!" >>),
    Framed(<< "a", "A", "=" >>) }

\* descriptions that begin with the text of the prefix and lack the space
UnspacedDescriptions ==
  { DescriptionPrefix, DescriptionPrefix \o << "a", "A", "=", "=" >> }

\* positions in the returned list of the records that carry a remote uuid
AddressAt == { n \in 1..Len(out.eps) : out.eps[n].SetIdentifier # "" }

\* position of the record decoded first from row k
RowStart(k) ==
  CHOOSE p \in AddressAt : Cardinality({ q \in AddressAt : q < p }) = k - 1

\* number of records decoded from row k
RowCount(k) ==
  IF k = Len(rows) THEN Len(out.eps) - RowStart(k) + 1
  ELSE RowStart(k + 1) - RowStart(k)

\* the record at position p is the address record decoded from row
IsAddressOf(p, row) ==
  /\ out.eps[p].DNSName = row.Hostname \o << "." >> \o row.Domain
  /\ out.eps[p].SetIdentifier = row.UUID
  /\ out.eps[p].Targets = << row.Server >>

\* the record at position p is an ownership record under name with value
IsOwnership(p, name, value) ==
  /\ out.eps[p].DNSName = name
  /\ out.eps[p].RecordType = << "T", "X", "T" >>
  /\ out.eps[p].Targets = << value >>
  /\ out.eps[p].SetIdentifier = ""

\* C11: a read decodes every row whose description is the prefix, a space
\* and valid base64 into exactly three records in this order: the address
\* record (name hostname.domain, set-identifier the uuid), an ownership
\* record under the same name and one under "a-" + name, both with the
\* decoded value as target and no set-identifier.
C11_DecodeThreeRecords ==
  ReadDone =>
    /\ Cardinality(AddressAt) = Len(rows)
    /\ \A k \in 1..Len(rows) : \A p \in OwnershipOf :
         rows[k].Description = p[1] =>
           LET name == rows[k].Hostname \o << "." >> \o rows[k].Domain
           IN  /\ RowCount(k) = 3
               /\ IsAddressOf(RowStart(k), rows[k])
               /\ IsOwnership(RowStart(k) + 1, name, p[2])
               /\ IsOwnership(RowStart(k) + 2, << "a", "-" >> \o name, p[2])

C11_Witness ==
  /\ ReadDone
  /\ Len(rows) = 2
  /\ rows[1].Description = Framed(<< "a", "G", "k", "=" >>)
  /\ rows[2].Description = Framed(<< "a", "A", "=", "=" >>)
  /\ Len(out.eps) = 6

\* C12: a read decodes every row whose description is empty, does not
\* start with the prefix, or starts with it and goes on with text that is
\* not base64 into exactly one record, the address record; the other rows
\* are decoded and the read succeeds.
C12_DecodeOneRecord ==
  ReadDone =>
    /\ ~err.failed
    /\ ~out.nil
    /\ Cardinality(AddressAt) = Len(rows)
    /\ \A k \in 1..Len(rows) :
         /\ IsAddressOf(RowStart(k), rows[k])
         /\ rows[k].Description \in PlainDescriptions => RowCount(k) = 1

C12_Witness ==
  /\ ReadDone
  /\ Len(rows) = 2
  /\ rows[1].Description = Framed(<< "!", "!", "!", "!" >>)
  /\ rows[2].Description = Framed(<< "a", "A", "=", "=" >>)
  /\ Len(out.eps) = 4
  /\ ~err.failed

\* C13: a read decodes a row whose description starts with the text of the
\* prefix and lacks the space after it (the prefix alone, or the prefix
\* with other characters right after it) into the address record only.
C13_PrefixNeedsSpace ==
  ReadDone =>
    \A k \in 1..Len(rows) :
      rows[k].Description \in UnspacedDescriptions => RowCount(k) = 1

\* positions of the ownership records of eps that write the cache key name
Writers(eps, name) ==
  { n \in 1..Len(eps) :
      /\ eps[n].RecordType = << "T", "X", "T" >>
      /\ \/ eps[n].DNSName = name
         \/ eps[n].DNSName = << "a", "-" >> \o name }

\* the cache keys the ownership records of eps write
WrittenNames(eps) ==
  { eps[n].DNSName : n \in { m \in 1..Len(eps) : eps[m].RecordType = << "T", "X", "T" >> } }
    \cup { SubSeq(eps[n].DNSName, 3, Len(eps[n].DNSName)) :
             n \in { m \in 1..Len(eps) :
                       /\ eps[m].RecordType = << "T", "X", "T" >>
                       /\ Len(eps[m].DNSName) >= 2
                       /\ SubSeq(eps[m].DNSName, 1, 2) = << "a", "-" >> } }

\* the last of a non-empty set of positions
LastOf(positions) == CHOOSE n \in positions : \A m \in positions : m <= n

\* C17: after a successful Records the cache holds exactly the names the
\* ownership records of that read write, each with the value of that read;
\* an entry of an earlier read or change-set that the read does not
\* produce is gone.
C17_ReadReplacesCache ==
  ReadDone =>
    /\ DOMAIN heritages = WrittenNames(out.eps)
    /\ \A name \in DOMAIN heritages :
         heritages[name] = out.eps[LastOf(Writers(out.eps, name))].Targets[1]

C17_Witness ==
  /\ ReadDone
  /\ DOMAIN heritages # {}
  /\ \E n \in 1..Len(changes.Create) :
       /\ changes.Create[n].RecordType = << "T", "X", "T" >>
       /\ changes.Create[n].DNSName \notin DOMAIN heritages

(***************************************************************************)
(* The cache and the codec as functions                                    *)
(***************************************************************************)

\* the most records Create and UpdateNew hold together at a merge
MaxCreate == 3

NameXDE == << "x", ".", "d", ".", "e" >>

\* the caches a provider can hold: after a read or not, and after the merge
\* of an earlier change-set
CacheInputs ==
  { updateFromPlan(h, c) :
      h \in {newCache, cacheFromSlice(ToEndpoints(InitialRows))}, c \in EarlierChanges }

\* the address records createEndpoint encodes
EncodeInputs ==
  { ep \in Pool : supportedType(ep.RecordType) }
    \cup { [DNSName |-> NameXDE, Targets |-> << <<"4">> >>, RecordType |-> RecordTypeA,
            SetIdentifier |-> "", Labels |-> <<>>] }

\* the UpdateOld lists of a merge: none, or a record the remote holds
ReplacedInputs ==
  {<<>>} \cup {<< ep >> : ep \in {e \in Pool : supportedType(e.RecordType) /\ e.SetIdentifier # ""}}

CodecInit ==
  /\ NoCaller
  /\ heritages \in CacheInputs
  /\ rows = <<>>
  /\ uuidSeq = 0
  /\ pc = "idle"
  /\ changes = NoChanges
  /\ i = 1
  /\ requestDatas = <<>>
  /\ j = 1
  /\ reqs = <<>>
  /\ resp = NoResp
  /\ err = NilErr
  /\ out = NilOut

\* u.knownRecords.updateFromPlan(c)
CallUpdateFromPlan(c) ==
  /\ pc = "idle"
  /\ changes' = c
  /\ heritages' = updateFromPlan(heritages, c)
  /\ pc' = "updateFromPlan"
  /\ UNCHANGED << rows, uuidSeq, i, requestDatas, j, reqs, resp, err, out >>

\* u.createRequestJSON(ep); the record is kept as the Create list
CallCreateRequestJSON(ep) ==
  /\ pc = "idle"
  /\ changes' = Changes(<< ep >>, <<>>, <<>>, <<>>)
  /\ requestDatas' = createRequestJSON(heritages, ep)
  /\ pc' = "createRequestJSON"
  /\ UNCHANGED << heritages, rows, uuidSeq, i, j, reqs, resp, err, out >>

\* the remote stores the payloads under identifiers of its own, and
\* SearchHostResp.ToEndpoints decodes these rows
CallToEndpoints ==
  /\ pc = "createRequestJSON"
  /\ rows' = [k \in 1..Len(requestDatas) |-> [requestDatas[k] EXCEPT !.UUID = ToString(k)]]
  /\ uuidSeq' = Len(requestDatas)
  /\ out' = [nil |-> FALSE, eps |-> ToEndpoints(rows')]
  /\ pc' = "ToEndpoints"
  /\ UNCHANGED << heritages, changes, i, requestDatas, j, reqs, resp, err >>

CodecNext ==
  \/ /\ pc = "idle"
     /\ \E cs \in SeqsUpTo(Pool, MaxCreate) :
          \E k \in 0..Len(cs) :
            \E dl \in {<<>>} \cup {<< ep >> : ep \in Pool} :
              \E uo \in ReplacedInputs :
                CallUpdateFromPlan(Changes(SubSeq(cs, 1, k), uo, SubSeq(cs, k + 1, Len(cs)), dl))
     /\ UNCHANGED callerVars
  \/ /\ \E ep \in EncodeInputs : CallCreateRequestJSON(ep)
     /\ UNCHANGED callerVars
  \/ /\ CallToEndpoints
     /\ UNCHANGED callerVars

SpecCodec == CodecInit /\ [][CodecNext]_vars

\* the record CallCreateRequestJSON encoded
Encoded == changes.Create[1]

\* base64 of the ownership values the caches hold
ValueBase64 ==
  { << <<>>, <<>> >>,
    << << "h" >>, << "a", "A", "=", "=" >> >>,
    << << "k" >>, << "a", "w", "=", "=" >> >>,
    << << "v" >>, << "d", "g", "=", "=" >> >> }

Base64Of(value) == (CHOOSE p \in ValueBase64 : p[1] = value)[2]

\* C14: the description createDescription gives a payload is the prefix,
\* one space and base64 of the cache entry of the name; without a cache
\* entry it is the prefix and one space, never the empty string.
C14_CreateDescription ==
  pc = "createRequestJSON" =>
    \A k \in 1..Len(requestDatas) :
      /\ requestDatas[k].Description # <<>>
      /\ requestDatas[k].Description =
           IF Encoded.DNSName \in DOMAIN heritages
             THEN DescriptionPrefix \o << " " >> \o Base64Of(heritages[Encoded.DNSName])
             ELSE DescriptionPrefix \o << " " >>

C14_Witness ==
  /\ pc = "createRequestJSON"
  /\ Encoded.DNSName \notin DOMAIN heritages
  /\ DOMAIN heritages # {}
  /\ Len(requestDatas) > 0
  /\ requestDatas[1].Description = DescriptionPrefix \o << " " >>

\* C15: decoding the rows the remote stores for the payloads of an address
\* record gives, for each target, an address record with the DNS name, the
\* target and the kind of the record encoded, whatever the name.
C15_RoundTrip ==
  pc = "ToEndpoints" =>
    \A k \in 1..Len(Encoded.Targets) :
      \E n \in 1..Len(out.eps) :
        /\ out.eps[n].SetIdentifier = ToString(k)
        /\ out.eps[n].DNSName = Encoded.DNSName
        /\ out.eps[n].Targets = << Encoded.Targets[k] >>
        /\ out.eps[n].RecordType = Encoded.RecordType

\* C16: createRequestJSON gives one payload per target, in the order of the
\* targets; each has the first segment of the name as hostname, the other
\* segments joined by dots as domain, the target as server, the kind as rr,
\* enabled "1", and all have the same description.
C16_OnePayloadPerTarget ==
  pc = "createRequestJSON" =>
    /\ Len(requestDatas) = Len(Encoded.Targets)
    /\ \A k \in 1..Len(requestDatas) :
         LET data == requestDatas[k]
             dots == { n \in 1..Len(Encoded.DNSName) : Encoded.DNSName[n] = "." }
         IN  /\ data.Server = Encoded.Targets[k]
             /\ data.Rr = Encoded.RecordType
             /\ data.Enabled = "1"
             /\ data.Description = requestDatas[1].Description
             /\ \A n \in 1..Len(data.Hostname) : data.Hostname[n] # "."
             /\ IF dots = {}
                  THEN data.Hostname = Encoded.DNSName /\ data.Domain = <<>>
                  ELSE Encoded.DNSName = data.Hostname \o << "." >> \o data.Domain

C16_Witness ==
  /\ pc = "createRequestJSON"
  /\ Len(requestDatas) = 2
  /\ requestDatas[1].Server # requestDatas[2].Server
  /\ requestDatas[1].Domain = << "d" >>

\* the value an ownership record stores in the cache
StoredValue(ep) == Join(ep.Targets, ";")

\* C18: the extraction of a list of records holds, for every ownership
\* record, its name with its value and, when the name starts with "a-",
\* also the name without that "a-" with the same value; records of other
\* kinds store nothing.
C18_CacheFromSlice ==
  [][(pc' = "updateFromPlan" /\ heritages = newCache) =>
       LET eps == Creates(changes')
       IN  /\ DOMAIN heritages' = WrittenNames(eps)
           /\ \A name \in DOMAIN heritages' :
                heritages'[name] = StoredValue(eps[LastOf(Writers(eps, name))])]_vars

C18_Witness ==
  /\ pc = "updateFromPlan"
  /\ Len(Creates(changes)) = 3
  /\ \E n \in 1..3 : /\ Creates(changes)[n].RecordType = << "T", "X", "T" >>
                     /\ Creates(changes)[n].DNSName = << "a", "-", "x", ".", "d" >>
  /\ \E n \in 1..3 : /\ Creates(changes)[n].RecordType = << "T", "X", "T" >>
                     /\ Creates(changes)[n].DNSName = << "x", ".", "d" >>
  /\ \E n \in 1..3 : /\ Creates(changes)[n].RecordType = << "A" >>
                     /\ Creates(changes)[n].DNSName = << "x", ".", "d" >>
  /\ DOMAIN heritages = { << "x", ".", "d" >>, << "a", "-", "x", ".", "d" >> }

\* the names of the address records of the Delete list
DeletedNames(c) ==
  { c.Delete[n].DNSName :
      n \in { m \in 1..Len(c.Delete) : c.Delete[m].RecordType \in AddressKinds } }

\* C19: updateFromPlan sets the entries extracted from Create and
\* UpdateNew, removes the entry of the name of every address record of
\* Delete that the extraction does not set, and leaves every other entry
\* as it was.
C19_UpdateFromPlanDelta ==
  [][pc' = "updateFromPlan" =>
       LET eps == Creates(changes')
       IN  \A name \in DOMAIN heritages \cup DOMAIN heritages' \cup DeletedNames(changes') :
             IF name \in WrittenNames(eps)
               THEN /\ name \in DOMAIN heritages'
                    /\ heritages'[name] = StoredValue(eps[LastOf(Writers(eps, name))])
             ELSE IF name \in DeletedNames(changes')
               THEN name \notin DOMAIN heritages'
             ELSE /\ name \in DOMAIN heritages
                  /\ name \in DOMAIN heritages'
                  /\ heritages'[name] = heritages[name]]_vars

C19_Witness ==
  /\ pc = "updateFromPlan"
  /\ Len(changes.Delete) = 1
  /\ changes.Delete[1].DNSName = << "x", ".", "d" >>
  /\ changes.Delete[1].RecordType = << "A" >>
  /\ Len(Creates(changes)) = 1
  /\ Creates(changes)[1].DNSName = << "y" >>
  /\ DOMAIN heritages = { << "a", "-", "x", ".", "d" >> }

\* the DNS name an addHostOverride payload is for
PayloadName(data) ==
  IF data.Domain = <<>> THEN data.Hostname ELSE data.Hostname \o << "." >> \o data.Domain

\* C20: every addHostOverride payload of an ApplyChanges whose Create or
\* UpdateNew list holds an ownership record for the name of the payload, or
\* for "a-" + that name, has the description prefix, space, base64 of the
\* value of that ownership record, wherever the ownership record stands in
\* the list.
C20_MergeBeforeCreate ==
  \A n \in 1..Len(reqs) :
    IsAdd(reqs[n]) =>
      LET data == reqs[n].body[1]
          owners == Writers(Creates(changes), PayloadName(data))
      IN  owners # {} =>
            data.Description =
              DescriptionPrefix \o << " " >>
                \o Base64Of(StoredValue(Creates(changes)[LastOf(owners)]))

C20_Witness ==
  /\ pc = "done"
  /\ ~err.failed
  /\ Len(changes.Create) = 2
  /\ changes.Create[1].RecordType = << "A" >>
  /\ changes.Create[2].RecordType = << "T", "X", "T" >>
  /\ changes.Create[2].DNSName = << "a", "-", "x", ".", "d" >>
  /\ heritages[<< "x", ".", "d" >>] = << "k" >>
  /\ IsAdd(reqs[1])
  /\ reqs[1].body[1].Description = DescriptionPrefix \o << " ", "a", "w", "=", "=" >>

(***************************************************************************)
(* The calls with their requests on the wire                               *)
(***************************************************************************)

\* the call stands at a u.client.Do: the one of Records, of deleteEndpoint,
\* of createTarget or of reconfigure
AtDo ==
  \/ pc = "idle"
  \/ pc = "delete" /\ i <= Len(Deletes(changes))
  \/ pc = "createTarget" /\ j <= Len(requestDatas)
  \/ pc = "reconfigure"

\* the request the call hands to u.client.Do
NextRequest ==
  CASE pc = "idle" -> Request(SearchOverridesEndpoint, "", <<>>)
    [] pc = "delete" -> Request(DelOverrideEndpoint, Deletes(changes)[i].SetIdentifier, <<>>)
    [] pc = "createTarget" -> Request(AddOverrideEndpoint, "", << requestDatas[j] >>)
    [] OTHER -> Request(ApplyChangesEndpoint, "", <<>>)

\* a client.Do started in a goroutine of its own: the call goes on without
\* the answer
clientDoAsync ==
  /\ AtDo
  /\ ctx = "live"
  /\ awaiting' = Append(awaiting, NextRequest)
  /\ UNCHANGED << heritages, rows, uuidSeq, pc, changes, i, requestDatas, j, reqs, resp, err, out,
                  caller, reader, ctx >>

\* u.client.Do(req), first half: the request leaves and the call blocks
clientDo ==
  /\ AtDo
  /\ awaiting = <<>>
  /\ ctx = "live"
  /\ awaiting' = Append(awaiting, NextRequest)
  /\ UNCHANGED << heritages, rows, uuidSeq, pc, changes, i, requestDatas, j, reqs, resp, err, out,
                  caller, reader, ctx >>

\* what client.Do and the read of the body give once the context of the
\* request is cancelled: the error of the context, or a body cut short
Cancelled(r) == r.doErr \/ ~r.parses

\* u.client.Do(req), second half: the answer r arrives and the call goes on
\* with it
clientDoReturn ==
  /\ awaiting # <<>>
  /\ awaiting' = Tail(awaiting)
  /\ \/ \E r \in SearchResponses : (ctx = "cancelled" => Cancelled(r)) /\ Records(r)
     \/ \E r \in WriteResponses : (ctx = "cancelled" => Cancelled(r)) /\ deleteEndpoint(r)
     \/ \E r \in WriteResponses : (ctx = "cancelled" => Cancelled(r)) /\ createTarget(r)
     \/ \E r \in WriteResponses : (ctx = "cancelled" => Cancelled(r)) /\ reconfigure(r)
  /\ UNCHANGED << caller, reader, ctx >>

\* the context is cancelled while a request of the call is in flight
cancel ==
  /\ ctx = "live"
  /\ awaiting # <<>>
  /\ ctx' = "cancelled"
  /\ UNCHANGED << heritages, rows, uuidSeq, pc, changes, i, requestDatas, j, reqs, resp, err, out,
                  caller, reader, awaiting >>

WireNext ==
  \/ clientDo
  \/ clientDoReturn
  \/ cancel
  \/ /\ pc = "idle"
     /\ awaiting = <<>>
     /\ ctx = "live"
     /\ \E cr \in SeqsUpTo(Pool, MaxTotal) :
          \E dl \in SeqsUpTo(Pool, MaxTotal - Len(cr)) :
            \E uo \in SeqsUpTo(Pool, MaxTotal - Len(cr) - Len(dl)) :
              \E un \in SeqsUpTo(Pool, MaxTotal - Len(cr) - Len(dl) - Len(uo)) :
                ApplyChanges(Changes(cr, uo, un, dl))
     /\ UNCHANGED callerVars
  \/ /\ deleteEndpointsReturn
     /\ UNCHANGED callerVars
  \/ /\ createEndpoint
     /\ UNCHANGED callerVars
  \/ /\ skipCreate
     /\ UNCHANGED callerVars
  \/ /\ createEndpointReturn
     /\ UNCHANGED callerVars
  \/ /\ createEndpointsReturn
     /\ UNCHANGED callerVars

SpecWire == Init /\ [][WireNext]_vars

\* C21: within one Records or ApplyChanges call the requests are strictly
\* sequential: a request leaves only when no request of the call is in
\* flight, so at most one is outstanding, and the answer the call goes on
\* with is the answer to that request.
C21_Sequential ==
  [][ /\ Len(awaiting') <= 1
      /\ (Len(awaiting') > Len(awaiting) => awaiting = <<>>)
      /\ (Len(awaiting') < Len(awaiting) => reqs'[Len(reqs')] = awaiting[1]) ]_vars

\* an add of the create phase is in flight after the call got the answer to
\* its delete
C21_Witness ==
  /\ pc = "createTarget"
  /\ Len(awaiting) = 1
  /\ IsAdd(awaiting[1])
  /\ Len(reqs) > 0
  /\ IsDel(reqs[1])

\* C23: when the context is cancelled while ApplyChanges has a request in
\* flight, that request fails, ApplyChanges returns an error, and no request
\* leaves any more: no delete, create or reconfigure that remained, no undo.
C23_CancelEndsCall ==
  [][ (ctx = "cancelled" /\ pc # "idle") =>
        /\ Len(awaiting') <= Len(awaiting)
        /\ (awaiting # <<>> /\ awaiting' = <<>> =>
              /\ pc' = "done"
              /\ err'.failed
              /\ reqs' = Append(reqs, awaiting[1]))
        /\ (awaiting = <<>> => UNCHANGED << rows, reqs, pc, err >>) ]_vars

\* the call ended on the delete that was in flight at the cancellation, with
\* an add and the reconfigure still to do
C23_Witness ==
  /\ ctx = "cancelled"
  /\ awaiting = <<>>
  /\ pc = "done"
  /\ err.failed
  /\ Len(reqs) = 1
  /\ IsDel(reqs[1])
  /\ Len(ExpectedAdds(Creates(changes))) > 0

\* C24: no request is retried. The requests of an ApplyChanges are a prefix
\* of: one delete per record of the delete side, one add per target of each
\* address record of the create side, one reconfigure; Records issues one
\* search; and the call ends with an error at the first request that fails.
C24_NoRetry ==
  LET nd == Len(Deletes(changes))
      na == Len(ExpectedAdds(Creates(changes)))
  IN  IF pc = "idle"
        THEN /\ Len(reqs) <= 1
             /\ \A n \in 1..Len(reqs) : IsSearch(reqs[n])
        ELSE /\ Len(reqs) <= nd + na + 1
             /\ \A n \in 1..Len(reqs) :
                  /\ n <= nd => IsNthDelete(n)
                  /\ (n > nd /\ n <= nd + na) => IsNthAdd(n - nd)
                  /\ n = nd + na + 1 => IsReconf(reqs[n])
             /\ (Issued /\ ~GoodAnswer(resp, WantedLiteral(LastReq))) =>
                  (pc = "done" /\ err.failed)

\* the second delete of a change-set failed after the first succeeded, and
\* the call ended there with two requests
C24_Witness ==
  /\ pc = "done"
  /\ err.failed
  /\ Len(Deletes(changes)) = 2
  /\ Len(reqs) = 2
  /\ IsNthDelete(1)
  /\ IsNthDelete(2)
  /\ ~GoodAnswer(resp, "deleted")

(***************************************************************************)
(* Two goroutines on one provider                                          *)
(***************************************************************************)

\* Records of the other goroutine up to marshalEndpoints: the search request
\* and its answer r, decoded from the rows the remote holds at that moment
readerRecords(r) ==
  /\ reader.at = "none"
  /\ reader' = IF recordsResult(r).failed
                 THEN [at |-> "done", failed |-> TRUE, eps |-> <<>>, during |-> pc]
                 ELSE [at |-> "read", failed |-> FALSE, eps |-> ToEndpoints(rows), during |-> ""]
  /\ UNCHANGED << heritages, rows, uuidSeq, pc, changes, i, requestDatas, j, reqs, resp, err, out,
                  caller, awaiting, ctx >>

\* a Records of the other goroutine that merges what it read into the cache
readerStoreMerge ==
  /\ reader.at = "read"
  /\ heritages' = updateReadRecordsMerge(heritages, reader.eps)
  /\ reader' = [reader EXCEPT !.at = "done", !.during = pc]
  /\ UNCHANGED << rows, uuidSeq, pc, changes, i, requestDatas, j, reqs, resp, err, out,
                  caller, awaiting, ctx >>

\* Records of the other goroutine, its last statement:
\* u.knownRecords.updateReadRecords(endpoints), wherever ApplyChanges stands
readerStore ==
  /\ reader.at = "read"
  /\ heritages' = updateReadRecords(heritages, reader.eps)
  /\ reader' = [reader EXCEPT !.at = "done", !.during = pc]
  /\ UNCHANGED << rows, uuidSeq, pc, changes, i, requestDatas, j, reqs, resp, err, out,
                  caller, awaiting, ctx >>

SharedNext ==
  \/ \E r \in SearchResponses : readerRecords(r)
  \/ readerStore
  \/ /\ pc = "idle"
     /\ \E cr \in SeqsUpTo(Pool, MaxTotal) :
          \E dl \in ReplacedInputs :
            ApplyChanges(Changes(cr, <<>>, <<>>, dl))
     /\ UNCHANGED callerVars
  \/ /\ \E r \in WriteResponses : deleteEndpoint(r)
     /\ UNCHANGED callerVars
  \/ /\ deleteEndpointsReturn
     /\ UNCHANGED callerVars
  \/ /\ createEndpoint
     /\ UNCHANGED callerVars
  \/ /\ skipCreate
     /\ UNCHANGED callerVars
  \/ /\ \E r \in WriteResponses : createTarget(r)
     /\ UNCHANGED callerVars
  \/ /\ createEndpointReturn
     /\ UNCHANGED callerVars
  \/ /\ createEndpointsReturn
     /\ UNCHANGED callerVars
  \/ /\ \E r \in WriteResponses : reconfigure(r)
     /\ UNCHANGED callerVars

SpecShared == Init /\ [][SharedNext]_vars

\* the Records of the other goroutine stored its read after ApplyChanges
\* merged the change-set and before it left the create phase
ReadCameBetween ==
  /\ reader.at = "done"
  /\ ~reader.failed
  /\ reader.during \in {"delete", "create", "createTarget"}

\* the description of an address record named name when the cache was
\* extracted from eps alone
FromAlone(eps, name) ==
  IF Writers(eps, name) = {}
    THEN Framed(<<>>)
    ELSE Framed(Base64Of(StoredValue(eps[LastOf(Writers(eps, name))])))

\* C22: the operations on one provider instance are not isolated. When a
\* Records call stores its read between the cache merge of an ApplyChanges
\* and the build of the payloads of an address record, every payload of that
\* record carries the ownership value of the read, or the framed empty text
\* when the read has none for the name, whatever the change-set supplies;
\* when no Records call stores in between, a payload carries the value the
\* change-set supplies for its name.
C22_ReadBetweenMergeAndCreate ==
  [][(pc = "create" /\ pc' = "createTarget") =>
       LET ep == Creates(changes)[i]
       IN  \A k \in 1..Len(requestDatas') :
             IF ReadCameBetween
               THEN requestDatas'[k].Description = FromAlone(reader.eps, ep.DNSName)
               ELSE Writers(Creates(changes), ep.DNSName) # {} =>
                      requestDatas'[k].Description = FromAlone(Creates(changes), ep.DNSName)]_vars

\* the change-set supplies the ownership value "v" for x.d, a Records stored
\* its read during the delete phase, and the payload of x.d carries "h", the
\* value of the read
C22_Witness ==
  /\ pc = "createTarget"
  /\ ReadCameBetween
  /\ reader.during = "delete"
  /\ Len(requestDatas) > 0
  /\ Creates(changes)[i].DNSName = NameX
  /\ FromAlone(Creates(changes), NameX) = Framed(Base64Of(<< "v" >>))
  /\ FromAlone(reader.eps, NameX) = Framed(Base64Of(<< "h" >>))
  /\ requestDatas[1].Description = Framed(<< "a", "A", "=", "=" >>)

(***************************************************************************)
(* The commands upsert and delete                                          *)
(***************************************************************************)

ErrUnequalHostTargets == "ErrUnequalHostTargets"
ErrMissingHosts == "ErrMissingHosts"

\* the most values a --host or --target flag list holds
MaxHosts == 2

NameZ == << "z", ".", "d" >>

\* the values of the --host flags
CliHosts == {NameX, NameZ}

\* the values of the --target flags
CliTargets == { << "1" >>, << "2" >> }

\* the rows the remote can hold when a command starts: x.d twice with the
\* target 2, once with a description this provider wrote
CliRows ==
  { Row("u1", <<"x">>, <<"d">>, RecordTypeA, <<"1">>, <<>>),
    Row("u2", <<"x">>, <<"d">>, RecordTypeA, <<"2">>,
        DescriptionPrefix \o << " ", "a", "A", "=", "=" >>),
    Row("u3", <<"x">>, <<"d">>, RecordTypeA, <<"2">>, <<>>),
    Row("u4", <<"z">>, <<"d">>, RecordTypeA, <<"1">>, <<>>) }

\* the sequences of at most n different elements of S
DistinctSeqs(S, n) ==
  { s \in SeqsUpTo(S, n) : \A a, b \in 1..Len(s) : a # b => s[a] # s[b] }

\* the orders in which a range over a map with the keys S can visit them
Orders(S) == { s \in DistinctSeqs(S, Cardinality(S)) : Len(s) = Cardinality(S) }

\* the loop of toMapping over the first n hosts: out[host] = targets[i]
RECURSIVE toMappingLoop(_, _, _)
toMappingLoop(hosts, targets, n) ==
  IF n = 0 THEN newCache
  ELSE MapPut(toMappingLoop(hosts, targets, n - 1), hosts[n], targets[n])

\* toMapping that pairs the hosts and targets it has and reports no error
toMappingTruncate(hosts, targets) ==
  [err |-> NilErr,
   out |-> toMappingLoop(hosts, targets,
                         IF Len(hosts) < Len(targets) THEN Len(hosts) ELSE Len(targets))]

\* toMapping
toMapping(hosts, targets) ==
  IF Len(hosts) # Len(targets)
    THEN [err |-> Failure({ErrUnequalHostTargets}), out |-> newCache]
    ELSE [err |-> NilErr, out |-> toMappingLoop(hosts, targets, Len(hosts))]

\* the loop of createChangeSet over existing: the host mappings that remain
\* and the Delete list
RECURSIVE createChangeSetLoop(_, _, _)
createChangeSetLoop(existing, hostMappings, del) ==
  IF Len(existing) = 0 THEN [hostMappings |-> hostMappings, Delete |-> del]
  ELSE LET ep == Head(existing)
           ok == ep.DNSName \in DOMAIN hostMappings
       IN  IF ok /\ hostMappings[ep.DNSName] = ep.Targets[1]
             THEN createChangeSetLoop(Tail(existing), MapDelete(hostMappings, ep.DNSName), del)
           ELSE IF ok /\ hostMappings[ep.DNSName] # ep.Targets[1]
             THEN createChangeSetLoop(Tail(existing), hostMappings, Append(del, ep))
           ELSE createChangeSetLoop(Tail(existing), hostMappings, del)

\* toEndpoints: endpoint.NewEndpoint(host, A, target) for every entry of the
\* map, visited in the order order
toEndpoints(in, order) ==
  [k \in 1..Len(order) |->
     [DNSName |-> order[k], Targets |-> << in[order[k]] >>, RecordType |-> RecordTypeA,
      SetIdentifier |-> "", Labels |-> <<>>]]

\* upsert.createChangeSet; order is the order of the range of toEndpoints
createChangeSet(existing, hostMappings, order) ==
  LET done == createChangeSetLoop(existing, hostMappings, <<>>)
  IN  Changes(toEndpoints(done.hostMappings, order), <<>>, <<>>, done.Delete)

\* the keys createChangeSet leaves in the map
Remaining(existing, hostMappings) ==
  DOMAIN createChangeSetLoop(existing, hostMappings, <<>>).hostMappings

\* toSet
toSet(hosts) == { hosts[k] : k \in 1..Len(hosts) }

\* planChanges, after the read: the Delete list of the delete command
planChanges(existing, toDelete) ==
  LET Wanted(record) == record.DNSName \in toDelete /\ record.SetIdentifier # ""
  IN  Changes(<<>>, <<>>, <<>>, SelectSeq(existing, Wanted))

\* the provider variables a step of a command leaves alone
providerVars ==
  << heritages, rows, uuidSeq, pc, changes, i, requestDatas, j, reqs, resp, err, out >>

\* doUpsert up to parseHostMappings, with the flags of the command line
doUpsert(hosts, targets) ==
  /\ caller.cmd = "none"
  /\ caller' = [NoCommand EXCEPT
                  !.cmd = "upsert", !.hosts = hosts, !.targets = targets, !.run = 1,
                  !.held = rows,
                  !.err = toMapping(hosts, targets).err,
                  !.at = IF toMapping(hosts, targets).err.failed THEN "returned" ELSE "Records"]
  /\ UNCHANGED providerVars
  /\ UNCHANGED << reader, awaiting, ctx >>

\* doUpsert: c.provider.Records(ctx), answer r
upsertRecords(r) ==
  /\ caller.cmd = "upsert"
  /\ caller.at = "Records"
  /\ Records(r)
  /\ caller' = IF err'.failed
                 THEN [caller EXCEPT !.at = "returned", !.log = reqs',
                                     !.err = Wrap("unable to read existing records", err')]
                 ELSE [caller EXCEPT !.at = "ApplyChanges", !.log = reqs']
  /\ UNCHANGED << reader, awaiting, ctx >>

\* doUpsert: createChangeSet and the entry of c.provider.ApplyChanges
upsertApplyChanges ==
  /\ caller.cmd = "upsert"
  /\ caller.at = "ApplyChanges"
  /\ LET hostMappings == toMapping(caller.hosts, caller.targets).out
     IN  \E order \in Orders(Remaining(out.eps, hostMappings)) :
           ApplyChanges(createChangeSet(out.eps, hostMappings, order))
  /\ caller' = [caller EXCEPT !.at = "applying", !.calls = caller.calls + 1]
  /\ UNCHANGED << reader, awaiting, ctx >>

\* doUpsert returns what ApplyChanges returned
upsertReturn ==
  /\ caller.cmd = "upsert"
  /\ caller.at = "applying"
  /\ pc = "done"
  /\ caller' = [caller EXCEPT !.at = "returned", !.log = caller.log \o reqs,
                              !.err = IF err.failed THEN Wrap("apply failed", err) ELSE NilErr]
  /\ UNCHANGED providerVars
  /\ UNCHANGED << reader, awaiting, ctx >>

\* the same upsert command is run again after it succeeded: a new process
\* with a new provider
upsertAgain ==
  /\ caller.cmd = "upsert"
  /\ caller.at = "returned"
  /\ ~caller.err.failed
  /\ caller.run = 1
  /\ caller' = [caller EXCEPT !.at = "Records", !.run = 2, !.log = <<>>, !.calls = 0,
                              !.held = rows]
  /\ heritages' = newCache
  /\ pc' = "idle"
  /\ changes' = NoChanges
  /\ i' = 1
  /\ requestDatas' = <<>>
  /\ j' = 1
  /\ reqs' = <<>>
  /\ resp' = NoResp
  /\ err' = NilErr
  /\ out' = NilOut
  /\ UNCHANGED << rows, uuidSeq, reader, awaiting, ctx >>

\* the delete command up to parseDeleteFlags
cmdDeleteEndpoints(hosts) ==
  /\ caller.cmd = "none"
  /\ caller' = [NoCommand EXCEPT
                  !.cmd = "delete", !.hosts = hosts, !.run = 1, !.held = rows,
                  !.err = IF Len(hosts) = 0 THEN Failure({ErrMissingHosts}) ELSE NilErr,
                  !.at = IF Len(hosts) = 0 THEN "returned" ELSE "Records"]
  /\ UNCHANGED providerVars
  /\ UNCHANGED << reader, awaiting, ctx >>

\* planChanges: provider.Records(ctx), answer r
cmdDeleteRecords(r) ==
  /\ caller.cmd = "delete"
  /\ caller.at = "Records"
  /\ Records(r)
  /\ caller' = IF err'.failed
                 THEN [caller EXCEPT !.at = "returned", !.log = reqs',
                                     !.err = Wrap("check existing records", err')]
                 ELSE [caller EXCEPT !.at = "ApplyChanges", !.log = reqs']
  /\ UNCHANGED << reader, awaiting, ctx >>

\* the delete command with an empty Delete list: it returns nil
cmdDeleteNothing ==
  /\ caller.cmd = "delete"
  /\ caller.at = "ApplyChanges"
  /\ Len(planChanges(out.eps, toSet(caller.hosts)).Delete) = 0
  /\ caller' = [caller EXCEPT !.at = "returned"]
  /\ UNCHANGED providerVars
  /\ UNCHANGED << reader, awaiting, ctx >>

\* the delete command: the entry of provider.ApplyChanges
cmdDeleteApplyChanges ==
  /\ caller.cmd = "delete"
  /\ caller.at = "ApplyChanges"
  /\ Len(planChanges(out.eps, toSet(caller.hosts)).Delete) # 0
  /\ ApplyChanges(planChanges(out.eps, toSet(caller.hosts)))
  /\ caller' = [caller EXCEPT !.at = "applying", !.calls = caller.calls + 1]
  /\ UNCHANGED << reader, awaiting, ctx >>

\* the delete command returns what ApplyChanges returned
cmdDeleteReturn ==
  /\ caller.cmd = "delete"
  /\ caller.at = "applying"
  /\ pc = "done"
  /\ caller' = [caller EXCEPT !.at = "returned", !.log = caller.log \o reqs,
                              !.err = IF err.failed THEN Wrap("apply changes", err) ELSE NilErr]
  /\ UNCHANGED providerVars
  /\ UNCHANGED << reader, awaiting, ctx >>

\* a new process in front of a remote that holds any rows
CliInit ==
  /\ NoCaller
  /\ heritages = newCache
  /\ rows \in DistinctSeqs(CliRows, MaxRows)
  /\ uuidSeq = 0
  /\ pc = "idle"
  /\ changes = NoChanges
  /\ i = 1
  /\ requestDatas = <<>>
  /\ j = 1
  /\ reqs = <<>>
  /\ resp = NoResp
  /\ err = NilErr
  /\ out = NilOut

\* the steps of the commands and of the provider calls they make; the
\* Create list of a command holds A records only, so createEndpoints skips
\* none
CliNext ==
  \/ \E hosts \in SeqsUpTo(CliHosts, MaxHosts) :
       \E targets \in SeqsUpTo(CliTargets, MaxHosts) : doUpsert(hosts, targets)
  \/ \E r \in SearchResponses : upsertRecords(r)
  \/ upsertApplyChanges
  \/ upsertReturn
  \/ upsertAgain
  \/ \E hosts \in SeqsUpTo(CliHosts, MaxHosts) : cmdDeleteEndpoints(hosts)
  \/ \E r \in SearchResponses : cmdDeleteRecords(r)
  \/ cmdDeleteNothing
  \/ cmdDeleteApplyChanges
  \/ cmdDeleteReturn
  \/ /\ \E r \in WriteResponses : deleteEndpoint(r)
     /\ UNCHANGED callerVars
  \/ /\ deleteEndpointsReturn
     /\ UNCHANGED callerVars
  \/ /\ createEndpoint
     /\ UNCHANGED callerVars
  \/ /\ \E r \in WriteResponses : createTarget(r)
     /\ UNCHANGED callerVars
  \/ /\ createEndpointReturn
     /\ UNCHANGED callerVars
  \/ /\ createEndpointsReturn
     /\ UNCHANGED callerVars
  \/ /\ \E r \in WriteResponses : reconfigure(r)
     /\ UNCHANGED callerVars

SpecCli == CliInit /\ [][CliNext]_vars

\* the command is an upsert that returned
UpsertReturned == caller.cmd = "upsert" /\ caller.at = "returned"

\* C25: an upsert whose host list and target list differ in length fails
\* with ErrUnequalHostTargets before any remote request: it makes no request
\* and the remote keeps its rows; with lists of equal length it does not fail
\* with that error.
C25_UnequalHostTargets ==
  caller.cmd = "upsert" =>
    IF Len(caller.hosts) # Len(caller.targets)
      THEN /\ caller.at = "returned"
           /\ caller.err.failed
           /\ caller.err.is = {ErrUnequalHostTargets}
           /\ caller.log = <<>>
           /\ reqs = <<>>
           /\ caller.calls = 0
           /\ rows = caller.held
      ELSE ErrUnequalHostTargets \notin caller.err.is

\* an upsert with two hosts and one target has returned
C25_Witness ==
  /\ UpsertReturned
  /\ Len(caller.hosts) = 2
  /\ Len(caller.targets) = 1
  /\ caller.err.failed
  /\ Len(rows) > 0

\* the host mappings of the upsert command
Mapping == toMapping(caller.hosts, caller.targets).out

\* the DNS name of a row of the remote
HeldName(row) == row.Hostname \o << "." >> \o row.Domain

\* when the command began the remote held an address record host -> target
Held(host, target) ==
  \E k \in 1..Len(caller.held) :
    /\ HeldName(caller.held[k]) = host
    /\ caller.held[k].Server = target

\* the read of the command did not fail
ReadWorked ==
  /\ Len(caller.log) > 0
  /\ caller.err.phase \notin {"unable to read existing records", "check existing records"}

\* the command made the search request and no other
OnlySearched == caller.log = << Request(SearchOverridesEndpoint, "", <<>>) >>

\* C26: upsert is idempotent: when for every requested host the remote
\* already holds an address record with that name and target, the upsert
\* makes the search request only and succeeds; and a second identical upsert
\* after a successful first makes the search request only and changes
\* nothing.
C26_UpsertIdempotent ==
  (UpsertReturned /\ Len(caller.hosts) = Len(caller.targets) /\ ReadWorked) =>
    /\ (\A host \in DOMAIN Mapping : Held(host, Mapping[host])) =>
         (OnlySearched /\ ~caller.err.failed /\ rows = caller.held)
    /\ caller.run = 2 => (OnlySearched /\ ~caller.err.failed /\ rows = caller.held)

\* the rows the remote held for a requested host with another target than
\* the requested one
Differing ==
  LET Differs(row) ==
        /\ HeldName(row) \in DOMAIN Mapping
        /\ row.Server # Mapping[HeldName(row)]
  IN  SelectSeq(caller.held, Differs)

\* C27: for an upsert of hosts the remote does not hold with their targets,
\* the Delete list is exactly the remote rows named as a requested host whose
\* target differs, each with its non-empty identifier; a record synthesized
\* by decode, which has no identifier, is never in the Delete list, also when
\* the row carries a managed description; and a successful upsert makes
\* these deletes, then one add per requested host, then one reconfigure.
C27_UpsertDeletes ==
  (/\ caller.cmd = "upsert"
   /\ caller.at \in {"applying", "returned"}
   /\ pc # "idle"
   /\ DOMAIN Mapping # {}
   /\ \A host \in DOMAIN Mapping : ~Held(host, Mapping[host])) =>
    /\ \A n \in 1..Len(changes.Delete) : changes.Delete[n].SetIdentifier # ""
    /\ [n \in 1..Len(changes.Delete) |-> changes.Delete[n].SetIdentifier]
         = [n \in 1..Len(Differing) |-> Differing[n].UUID]
    /\ (pc = "done" /\ ~err.failed) =>
         /\ Len(reqs) = Len(Differing) + Cardinality(DOMAIN Mapping) + 1
         /\ \A n \in 1..Len(reqs) :
              /\ n <= Len(Differing) => (IsDel(reqs[n]) /\ reqs[n].id = Differing[n].UUID)
              /\ (n > Len(Differing) /\ n < Len(reqs)) => IsAdd(reqs[n])
              /\ n = Len(reqs) => IsReconf(reqs[n])

\* the rows the remote held under a name the delete command was given
Named ==
  LET Wanted(row) == HeldName(row) \in toSet(caller.hosts)
  IN  SelectSeq(caller.held, Wanted)

\* C28: the delete command deletes exactly the read records whose name is
\* in the requested host set and whose remote identifier is not empty; when
\* there is none it makes the search request only and succeeds; with an empty
\* host list it fails with ErrMissingHosts before any remote request; and a
\* failing read or apply surfaces ErrRequestFailed.
C28_CliDelete ==
  caller.cmd = "delete" =>
    /\ Len(caller.hosts) = 0 =>
         /\ caller.at = "returned"
         /\ caller.err.is = {ErrMissingHosts}
         /\ caller.log = <<>>
         /\ reqs = <<>>
         /\ rows = caller.held
    /\ (caller.at \in {"applying", "returned"} /\ pc # "idle") =>
         /\ \A n \in 1..Len(changes.Delete) : changes.Delete[n].SetIdentifier # ""
         /\ [n \in 1..Len(changes.Delete) |-> changes.Delete[n].SetIdentifier]
              = [n \in 1..Len(Named) |-> Named[n].UUID]
         /\ changes.Create = <<>>
    /\ (caller.at = "returned" /\ ReadWorked /\ Len(Named) = 0) =>
         (OnlySearched /\ ~caller.err.failed /\ rows = caller.held)
    /\ (caller.at = "returned" /\ caller.err.failed /\ Len(caller.hosts) > 0) =>
         ErrRequestFailed \in caller.err.is

(***************************************************************************)
(* The same change-set applied twice                                       *)
(***************************************************************************)

\* the most ApplyChanges calls of one provider
MaxCalls == 2

\* ApplyChanges returned: the caller has its error and the provider is idle
ApplyChangesReturn ==
  /\ pc = "done"
  /\ caller.cmd = "apply"
  /\ caller.at = "applying"
  /\ caller' = [caller EXCEPT !.at = "returned", !.err = err, !.log = caller.log \o reqs]
  /\ pc' = "idle"
  /\ UNCHANGED << heritages, rows, uuidSeq, changes, i, requestDatas, j, reqs, resp, err, out,
                  reader, awaiting, ctx >>

\* the caller applies the change-set c for the first time
applyFirst(c) ==
  /\ caller.cmd = "none"
  /\ ApplyChanges(c)
  /\ caller' = [NoCommand EXCEPT !.cmd = "apply", !.at = "applying", !.calls = 1, !.run = 1,
                                 !.held = rows]
  /\ UNCHANGED << reader, awaiting, ctx >>

\* the caller applies the same change-set again after a success
applyAgain ==
  /\ caller.cmd = "apply"
  /\ caller.at = "returned"
  /\ ~caller.err.failed
  /\ caller.calls < MaxCalls
  /\ ApplyChanges(changes)
  /\ caller' = [caller EXCEPT !.at = "applying", !.calls = caller.calls + 1]
  /\ UNCHANGED << reader, awaiting, ctx >>

TwiceNext ==
  \/ /\ pc = "idle"
     /\ \E cr \in SeqsUpTo(Pool, MaxTotal) :
          \E dl \in ReplacedInputs :
            applyFirst(Changes(cr, <<>>, <<>>, dl))
  \/ ApplyChangesReturn
  \/ applyAgain
  \/ /\ \E r \in WriteResponses : deleteEndpoint(r)
     /\ UNCHANGED callerVars
  \/ /\ deleteEndpointsReturn
     /\ UNCHANGED callerVars
  \/ /\ createEndpoint
     /\ UNCHANGED callerVars
  \/ /\ skipCreate
     /\ UNCHANGED callerVars
  \/ /\ \E r \in WriteResponses : createTarget(r)
     /\ UNCHANGED callerVars
  \/ /\ createEndpointReturn
     /\ UNCHANGED callerVars
  \/ /\ createEndpointsReturn
     /\ UNCHANGED callerVars
  \/ /\ \E r \in WriteResponses : reconfigure(r)
     /\ UNCHANGED callerVars

SpecTwice == Init /\ [][TwiceNext]_vars

\* the number of addHostOverride requests among the first n requests
RECURSIVE AddsAmong(_)
AddsAmong(n) ==
  IF n = 0 THEN 0 ELSE AddsAmong(n - 1) + (IF IsAdd(reqs[n]) THEN 1 ELSE 0)

\* C29: ApplyChanges makes no existence check. When the same change-set has
\* been applied twice with success, the second call issued one
\* addHostOverride request per target of each address record of the create
\* side although the first call had created these rows, and the remote holds
\* every such row twice: two rows with the same name and target under
\* different identifiers.
C29_NoExistenceCheck ==
  (caller.cmd = "apply" /\ caller.calls = 2 /\ pc = "done" /\ ~err.failed) =>
    LET adds == ExpectedAdds(Creates(changes))
        na == Len(adds)
        first == Len(rows) - 2 * na
    IN  /\ AddsAmong(Len(reqs)) = na
        /\ first >= 0
        /\ \A n \in 1..na :
             /\ rows[first + n].Server = adds[n].target
             /\ rows[first + na + n].Server = adds[n].target
             /\ rows[first + n].Hostname = rows[first + na + n].Hostname
             /\ rows[first + n].Domain = rows[first + na + n].Domain
             /\ rows[first + n].Rr = rows[first + na + n].Rr
             /\ rows[first + n].UUID # rows[first + na + n].UUID

\* the create of x.d -> 3 was applied twice and the remote holds two such
\* rows
C29_Witness ==
  /\ caller.cmd = "apply"
  /\ caller.calls = 2
  /\ pc = "done"
  /\ ~err.failed
  /\ Len(changes.Create) = 1
  /\ changes.Create[1].Targets = << << "3" >> >>
  /\ Cardinality({ k \in 1..Len(rows) : rows[k].Server = << "3" >> /\ rows[k].Hostname = << "x" >> }) = 2

(***************************************************************************)
(* The webhook handlers of /records                                        *)
(***************************************************************************)

StatusNoContent == 204
StatusInternalServerError == 500

\* the most requests the server handles
MaxRequests == 2

\* applyHandler on a body json.Decode rejects: 400, and the provider is not
\* called
applyHandlerBadBody ==
  /\ caller.at \in {"none", "responded"}
  /\ caller.run = 0
  /\ caller' = [NoCommand EXCEPT !.cmd = "POST", !.at = "responded", !.run = 1,
                                 !.held = rows, !.decodes = FALSE,
                                 !.status = StatusBadRequest]
  /\ UNCHANGED providerVars
  /\ UNCHANGED << reader, awaiting, ctx >>

\* applyHandler on a body that decodes as thePlan: the entry of
\* provider.ApplyChanges
applyHandler(thePlan) ==
  /\ caller.at \in {"none", "responded"}
  /\ caller.run = 0
  /\ ApplyChanges(thePlan)
  /\ caller' = [NoCommand EXCEPT !.cmd = "POST", !.at = "applying", !.run = 1,
                                 !.held = rows, !.decodes = TRUE, !.calls = 1]
  /\ UNCHANGED << reader, awaiting, ctx >>

\* applyHandler that answers 204 whatever ApplyChanges returned
applyHandlerRespondNoContent ==
  /\ caller.cmd = "POST"
  /\ caller.at = "applying"
  /\ pc = "done"
  /\ caller' = [caller EXCEPT !.at = "responded", !.log = reqs, !.err = err,
                              !.status = StatusNoContent]
  /\ pc' = "idle"
  /\ UNCHANGED << heritages, rows, uuidSeq, changes, i, requestDatas, j, reqs, resp, err, out,
                  reader, awaiting, ctx >>

\* applyHandler after provider.ApplyChanges returned: 500 on an error, 204
\* otherwise
applyHandlerRespond ==
  /\ caller.cmd = "POST"
  /\ caller.at = "applying"
  /\ pc = "done"
  /\ caller' = [caller EXCEPT !.at = "responded", !.log = reqs, !.err = err,
                              !.status = IF err.failed THEN StatusInternalServerError
                                         ELSE StatusNoContent]
  /\ pc' = "idle"
  /\ UNCHANGED << heritages, rows, uuidSeq, changes, i, requestDatas, j, reqs, resp, err, out,
                  reader, awaiting, ctx >>

\* recordsHandler: provider.Records with the answer r, then 500 on an error
\* and writeJSON of the endpoints otherwise
recordsHandler(r) ==
  /\ caller.at \in {"none", "responded"}
  /\ caller.run < MaxRequests
  /\ Records(r)
  /\ caller' = [NoCommand EXCEPT !.cmd = "GET", !.at = "responded", !.run = caller.run + 1,
                                 !.held = rows, !.log = reqs', !.err = err',
                                 !.status = IF err'.failed THEN StatusInternalServerError
                                            ELSE StatusOK,
                                 !.body = out'.eps]
  /\ UNCHANGED << reader, awaiting, ctx >>

ServerNext ==
  \/ applyHandlerBadBody
  \/ /\ pc = "idle"
     /\ \E cr \in SeqsUpTo(Pool, MaxTotal) :
          \E dl \in ReplacedInputs :
            applyHandler(Changes(cr, <<>>, <<>>, dl))
  \/ applyHandlerRespond
  \/ \E r \in SearchResponses : recordsHandler(r)
  \/ /\ \E r \in WriteResponses : deleteEndpoint(r)
     /\ UNCHANGED callerVars
  \/ /\ deleteEndpointsReturn
     /\ UNCHANGED callerVars
  \/ /\ createEndpoint
     /\ UNCHANGED callerVars
  \/ /\ skipCreate
     /\ UNCHANGED callerVars
  \/ /\ \E r \in WriteResponses : createTarget(r)
     /\ UNCHANGED callerVars
  \/ /\ createEndpointReturn
     /\ UNCHANGED callerVars
  \/ /\ createEndpointsReturn
     /\ UNCHANGED callerVars
  \/ /\ \E r \in WriteResponses : reconfigure(r)
     /\ UNCHANGED callerVars

SpecServer == Init /\ [][ServerNext]_vars

\* C30: a POST /records calls ApplyChanges at most once, and only after its
\* body decoded as a change-set: an undecodable body is answered 400 and the
\* provider is not called, a provider error 500, a success 204. A GET
\* /records is answered 500 when Records fails, and otherwise 200 with the
\* records of the read.
C30_RecordsHandlers ==
  /\ caller.cmd = "POST" =>
       /\ caller.calls <= 1
       /\ caller.calls = 1 <=> caller.decodes
       /\ ~caller.decodes =>
            /\ caller.at = "responded"
            /\ caller.status = StatusBadRequest
            /\ rows = caller.held
            /\ reqs = <<>>
       /\ (caller.decodes /\ caller.at = "responded") =>
            /\ err.failed => caller.status = 500
            /\ ~err.failed => caller.status = 204
       /\ (caller.decodes /\ caller.at = "applying") => caller.status = 0
  /\ caller.cmd = "GET" =>
       /\ caller.at = "responded"
       /\ caller.calls = 0
       /\ Len(reqs) = 1
       /\ GoodAnswer(resp, "") => (caller.status = 200 /\ caller.body = ToEndpoints(rows))
       /\ ~GoodAnswer(resp, "") => (caller.status = 500 /\ caller.body = <<>>)

\* a POST whose create failed at the remote has been answered 500 after one
\* ApplyChanges call
C30_Witness ==
  /\ caller.cmd = "POST"
  /\ caller.at = "responded"
  /\ caller.calls = 1
  /\ caller.status = 500
  /\ Len(caller.log) > 0
  /\ IsAdd(caller.log[Len(caller.log)])

(***************************************************************************)
(* Records of a read passed back in a change-set                           *)
(***************************************************************************)

\* rows with the rr strings the remote can hold: with and without the text
\* after the kind, of a kind that is no address, and without rr
BackRows ==
  { InitialRows[1],
    InitialRows[2],
    Row("u3", <<"z">>, <<"d">>, RecordTypeA, <<"3">>, Framed(<< "a", "A", "=", "=" >>)),
    Row("u4", <<"z">>, <<"d">>, << "M", "X" >>, <<"4">>, <<>>),
    Row("u5", <<"y">>, <<"d">>, <<>>, <<"5">>, <<>>),
    Row("u6", <<"y">>, <<"d">>, << "A", "A", "A", "A", " ", "(", "6", ")" >>, <<"6">>, <<>>) }

\* a new provider in front of a remote that holds some of these rows
BackInit ==
  /\ NoCaller
  /\ heritages = newCache
  /\ rows \in DistinctSeqs(BackRows, MaxRows)
  /\ uuidSeq = 0
  /\ pc = "idle"
  /\ changes = NoChanges
  /\ i = 1
  /\ requestDatas = <<>>
  /\ j = 1
  /\ reqs = <<>>
  /\ resp = NoResp
  /\ err = NilErr
  /\ out = NilOut

\* the caller passes records of its last read back: ApplyChanges(c), with
\* the rows of the read kept in caller.held
passBack(c) ==
  /\ caller.cmd = "none"
  /\ ~out.nil
  /\ ApplyChanges(c)
  /\ caller' = [NoCommand EXCEPT !.cmd = "back", !.at = "applying", !.calls = 1,
                                 !.held = rows]
  /\ UNCHANGED << reader, awaiting, ctx >>

BackNext ==
  \/ /\ caller.cmd = "none"
     /\ \E r \in SearchResponses : Records(r)
     /\ UNCHANGED callerVars
  \/ /\ pc = "idle"
     /\ \E cr \in {<<>>} \cup { << out.eps[n] >> : n \in 1..Len(out.eps) } :
          \E dl \in {<<>>} \cup { << out.eps[n] >> : n \in 1..Len(out.eps) } :
            passBack(Changes(cr, <<>>, <<>>, dl))
  \/ /\ \E r \in WriteResponses : deleteEndpoint(r)
     /\ UNCHANGED callerVars
  \/ /\ deleteEndpointsReturn
     /\ UNCHANGED callerVars
  \/ /\ createEndpoint
     /\ UNCHANGED callerVars
  \/ /\ skipCreate
     /\ UNCHANGED callerVars
  \/ /\ \E r \in WriteResponses : createTarget(r)
     /\ UNCHANGED callerVars
  \/ /\ createEndpointReturn
     /\ UNCHANGED callerVars
  \/ /\ createEndpointsReturn
     /\ UNCHANGED callerVars
  \/ /\ \E r \in WriteResponses : reconfigure(r)
     /\ UNCHANGED callerVars

SpecBack == BackInit /\ [][BackNext]_vars

\* the text of s in front of its first space, all of s when it has none
FirstToken(s) ==
  LET spaces == { k \in 1..Len(s) : s[k] = " " }
  IN  IF spaces = {} THEN s
      ELSE SubSeq(s, 1, (CHOOSE k \in spaces : \A h \in spaces : k <= h) - 1)

\* the record ep was decoded from a row of the read, which held the rows
\* held, and the rr string of this row starts with an address kind
FromAddressRow(held, ep) ==
  \E k \in 1..Len(held) :
    /\ held[k].UUID = ep.SetIdentifier
    /\ FirstToken(held[k].Rr) \in AddressKinds

\* the read has returned its records and nothing was passed back yet
ReadBack == caller.cmd = "none" /\ ~out.nil

\* C31: the kind of a record decoded from a row is the first space-delimited
\* token of the rr string of the row; a record decoded from a row whose rr
\* starts with an address kind and passed back in a change-set is taken by
\* the create filter (createEndpoint builds its payload, it is not skipped),
\* and in the Delete list the merge removes the cache entry of its name.
C31_KindIsFirstToken ==
  [][/\ (ReadBack' /\ pc' = "idle") =>
          \A k \in 1..Len(rows') :
            out'.eps[RowStart(k)'].RecordType = FirstToken(rows'[k].Rr)
     /\ (caller.cmd = "back" /\ pc = "create" /\ i <= Len(Creates(changes))
           /\ FromAddressRow(caller.held, Creates(changes)[i])) =>
          /\ pc' = "createTarget"
          /\ Len(requestDatas') = 1
          /\ requestDatas'[1].Rr \in AddressKinds
     /\ (caller'.cmd = "back" /\ pc = "idle" /\ pc' = "delete") =>
          \A n \in 1..Len(changes'.Delete) :
            FromAddressRow(rows, changes'.Delete[n]) =>
              \/ changes'.Delete[n].DNSName \notin DOMAIN heritages'
              \/ changes'.Delete[n].DNSName \in WrittenNames(Creates(changes'))]_vars

\* the record decoded from the row with rr "A (IPv4)" was passed back in
\* the Create list and in the Delete list: the remote has stored the add,
\* and the cache has lost the entry of the name
C31_Witness ==
  /\ caller.cmd = "back"
  /\ pc = "done"
  /\ ~err.failed
  /\ Len(changes.Create) = 1
  /\ changes.Create[1].SetIdentifier = "u1"
  /\ changes.Create[1].RecordType = << "A" >>
  /\ changes.Delete = changes.Create
  /\ InitialRows[1] \in { caller.held[k] : k \in 1..Len(caller.held) }
  /\ \E n \in 1..Len(reqs) : IsAdd(reqs[n])
  /\ << "x", ".", "d" >> \notin DOMAIN heritages

\* C32: the merge removes before it sets: when a change-set deletes the
\* address record of a name and creates an ownership record for this name,
\* or for "a-" + this name, with the value v, the cache holds v for the name
\* after the merge.
C32_DeletesBeforeCreates ==
  pc = "updateFromPlan" =>
    \A name \in DeletedNames(changes) :
      LET owners == Writers(Creates(changes), name)
      IN  owners # {} =>
            /\ name \in DOMAIN heritages
            /\ heritages[name] = StoredValue(Creates(changes)[LastOf(owners)])

\* the change-set deletes the address record of x.d and creates the
\* ownership record of a-x.d with the value k: the cache holds k for x.d
C32_Witness ==
  /\ pc = "updateFromPlan"
  /\ Len(changes.Delete) = 1
  /\ changes.Delete[1].RecordType = << "A" >>
  /\ changes.Delete[1].DNSName = << "x", ".", "d" >>
  /\ Len(changes.Create) = 1
  /\ changes.Create[1].RecordType = << "T", "X", "T" >>
  /\ changes.Create[1].DNSName = << "a", "-", "x", ".", "d" >>
  /\ changes.UpdateNew = <<>>
  /\ heritages[<< "x", ".", "d" >>] = << "k" >>

\* the change-set c is one update: an address record the remote holds in
\* UpdateOld, another address record in UpdateNew, and nothing else
UpdatePair(c) ==
  /\ c.Create = <<>>
  /\ c.Delete = <<>>
  /\ Len(c.UpdateOld) = 1
  /\ Len(c.UpdateNew) = 1
  /\ c.UpdateOld # c.UpdateNew
  /\ c.UpdateOld[1].RecordType \in AddressKinds
  /\ c.UpdateNew[1].RecordType \in AddressKinds
  /\ c.UpdateOld[1].SetIdentifier # ""

\* C33: an update given as an UpdateOld/UpdateNew pair is done as one
\* delHostOverride of the identifier of the old record followed by the add
\* of the new record (one addHostOverride for each of its targets) and the
\* reconfigure, with no other request; the merge of the pair leaves the
\* cache as it was, so the new record is written with the prefix, a space
\* and base64 of the value a Records before it cached for the name.
C33_UpdateIsDeleteThenAdd ==
  [][UpdatePair(changes') =>
       LET old == changes'.UpdateOld[1]
           new == changes'.UpdateNew[1]
           na == Len(new.Targets)
       IN  /\ (pc = "idle" /\ pc' # "idle") => heritages' = heritages
           /\ pc # "idle" => heritages' = heritages
           /\ Len(reqs') <= na + 2
           /\ Len(reqs') >= 1 => (IsDel(reqs'[1]) /\ reqs'[1].id = old.SetIdentifier)
           /\ \A n \in 2..Len(reqs') :
                IF n <= na + 1
                  THEN /\ IsAdd(reqs'[n])
                       /\ reqs'[n].body[1].Server = new.Targets[n - 1]
                       /\ PayloadName(reqs'[n].body[1]) = new.DNSName
                       /\ reqs'[n].body[1].Description =
                            DescriptionPrefix \o << " " >>
                              \o Base64Of(MapGet(heritages', new.DNSName))
                  ELSE IsReconf(reqs'[n])]_vars

\* after a read cached h for x.d, the update of the row u1 of x.d to the
\* target 3 is done: the row u1 is gone, and the row with the target 3
\* carries base64 of h
C33_Witness ==
  /\ pc = "done"
  /\ ~err.failed
  /\ UpdatePair(changes)
  /\ changes.UpdateOld[1].SetIdentifier = "u1"
  /\ changes.UpdateNew[1].Targets = << << "3" >> >>
  /\ << "x", ".", "d" >> \in DOMAIN heritages
  /\ heritages[<< "x", ".", "d" >>] = << "h" >>
  /\ Len(reqs) = 3
  /\ \A k \in 1..Len(rows) : rows[k].UUID # "u1"
  /\ \E k \in 1..Len(rows) :
       /\ rows[k].Server = << "3" >>
       /\ rows[k].Description = DescriptionPrefix \o << " ", "a", "A", "=", "=" >>

\* C34: a Records call that fails, by a status other than 200, a transport
\* error or a body that does not parse, leaves the cache as it was before
\* the call.
C34_FailedReadKeepsCache ==
  [][(/\ reqs' = << Request(SearchOverridesEndpoint, "", <<>>) >>
      /\ \/ resp'.doErr
         \/ resp'.status # StatusOK
         \/ ~resp'.parses) =>
       /\ err'.failed
       /\ out'.nil
       /\ heritages' = heritages]_vars

\* the remote answered 200 with a body that does not parse; the cache still
\* holds the entries of the earlier change-set, which the rows of the remote
\* would have replaced
C34_Witness ==
  /\ Issued
  /\ IsSearch(LastReq)
  /\ ~resp.doErr /\ resp.status = StatusOK /\ ~resp.parses
  /\ err.failed
  /\ DOMAIN heritages # {}
  /\ heritages # cacheFromSlice(ToEndpoints(rows))
  /\ cacheFromSlice(ToEndpoints(rows)) # newCache

\* C35: ApplyChanges merges the change-set into the cache before its first
\* request and no later step changes the cache: after an ApplyChanges that
\* failed in the delete, create or reconfigure phase the cache holds the
\* whole change-set (the entries of the ownership records of Create and
\* UpdateNew set, the entries of the address names of Delete removed),
\* whatever the remote holds.
C35_MergeNotReverted ==
  [][/\ (pc = "idle" /\ pc' \notin {"idle", "done"}) =>
          /\ reqs' = <<>>
          /\ heritages' = updateFromPlan(heritages, changes')
     /\ pc # "idle" => heritages' = heritages
     /\ (pc' = "done" /\ err'.failed) =>
          LET eps == Creates(changes')
          IN  /\ err'.phase \in {"plan delete", "plan create",
                                 "apply changes reconfigure endpoint"}
              /\ \A name \in WrittenNames(eps) :
                   /\ name \in DOMAIN heritages'
                   /\ heritages'[name] = StoredValue(eps[LastOf(Writers(eps, name))])
              /\ \A name \in DeletedNames(changes') \ WrittenNames(eps) :
                   name \notin DOMAIN heritages']_vars

\* the delete of the row u1 was refused: the remote holds its rows as
\* before, and the cache, which a read had filled, has lost the entry of
\* x.d
C35_Witness ==
  /\ pc = "done"
  /\ err.failed
  /\ err.phase = "plan delete"
  /\ rows = InitialRows
  /\ Len(changes.Delete) > 0
  /\ changes.Delete[1].SetIdentifier = "u1"
  /\ << "a", "-", "x", ".", "d" >> \in DOMAIN heritages
  /\ << "x", ".", "d" >> \notin DOMAIN heritages

\* C36: every delHostOverride request of ApplyChanges carries a remote
\* identifier: its path is DelOverrideEndpoint followed by a SetIdentifier
\* that is not empty, whatever the change-set, also when a record of Delete
\* or UpdateOld has an empty SetIdentifier.
C36_DeleteHasIdentifier ==
  \A n \in 1..Len(reqs) :
    IsDel(reqs[n]) => reqs[n].id # ""

\* the change-set c holds ownership records in Create and UpdateNew, at
\* least one, and nothing in Delete and UpdateOld
OwnershipOnly(c) ==
  /\ Deletes(c) = <<>>
  /\ Creates(c) # <<>>
  /\ \A n \in 1..Len(Creates(c)) : Creates(c)[n].RecordType = << "T", "X", "T" >>

\* C37: the ApplyChanges of a change-set that holds only ownership records
\* in Create and UpdateNew and no deletes issues no addHostOverride and no
\* delHostOverride request and exactly one reconfigure request, and the
\* cache holds the values of these ownership records.
C37_OwnershipOnly ==
  (OwnershipOnly(changes) /\ pc # "idle") =>
    /\ \A n \in 1..Len(reqs) : IsReconf(reqs[n])
    /\ Len(reqs) <= 1
    /\ pc = "done" => Len(reqs) = 1
    /\ \A name \in WrittenNames(Creates(changes)) :
         /\ name \in DOMAIN heritages
         /\ heritages[name] =
              StoredValue(Creates(changes)[LastOf(Writers(Creates(changes), name))])

\* the change-set was the ownership record of a-x.d with the value k alone:
\* the call is over, its one request was the reconfigure, and the cache
\* holds k for x.d
C37_Witness ==
  /\ pc = "done"
  /\ ~err.failed
  /\ OwnershipOnly(changes)
  /\ changes.Create = <<>>
  /\ changes.UpdateNew[1].DNSName = << "a", "-", "x", ".", "d" >>
  /\ reqs = << Request(ApplyChangesEndpoint, "", <<>>) >>
  /\ heritages[<< "x", ".", "d" >>] = << "k" >>

\* row k of the remote was written by an addHostOverride of this provider
Written(k) ==
  \A n \in 1..Len(InitialRows) : rows[k].UUID # InitialRows[n].UUID

\* the last request of the server was a GET /records answered 200
ReadAnswered == caller.cmd = "GET" /\ caller.status = StatusOK

\* C38: every row written by ApplyChanges has a description that starts
\* with the prefix, and a read decodes it into three records: the address
\* record and two ownership records. When the name had no cached ownership
\* the two ownership records have the empty value, and the cache rebuilt by
\* the read holds the empty value for the name and for "a-" + the name.
C38_WrittenRowsDecodeToThree ==
  /\ \A k \in 1..Len(rows) :
       Written(k) => HasPrefix(rows[k].Description, DescriptionPrefix)
  /\ ReadAnswered =>
       \A k \in 1..Len(rows) :
         Written(k) =>
           LET p == RowStart(k)
               name == PayloadName(rows[k])
           IN  /\ RowCount(k) = 3
               /\ IsAddressOf(p, rows[k])
               /\ out.eps[p + 1].RecordType = << "T", "X", "T" >>
               /\ out.eps[p + 2].RecordType = << "T", "X", "T" >>
               /\ rows[k].Description = DescriptionPrefix \o << " " >> =>
                    /\ out.eps[p + 1].Targets = << <<>> >>
                    /\ out.eps[p + 2].Targets = << <<>> >>
                    /\ name \in DOMAIN heritages
                    /\ heritages[name] = <<>>
                    /\ (<< "a", "-" >> \o name) \in DOMAIN heritages
                    /\ heritages[<< "a", "-" >> \o name] = <<>>

=============================================================================
